---------------------------- MODULE Spec2Model ----------------------------
(***************************************************************************)
(* Browser-based authentication of payload_mcp: AuthManager                *)
(* (src/payload_mcp/auth_manager.py) and the local listener AuthServer /   *)
(* AuthHandler (src/payload_mcp/auth_server.py).                           *)
(*                                                                         *)
(* Two execution contexts:                                                 *)
(*   - the caller's asyncio event loop, where start_browser_auth and       *)
(*     wait_for_browser_auth run as one task and where callbacks queued    *)
(*     with call_soon_threadsafe run;                                      *)
(*   - the listener thread (HTTPServer.serve_forever), which handles one   *)
(*     POST /login at a time: validation, login, the two completion        *)
(*     signals (one from _notify_auth_renewed, one from auth_callback),    *)
(*     the JSON response.                                                  *)
(* Statements of the two contexts interleave; statements of the loop       *)
(* thread interleave with each other only at an await.                     *)
(***************************************************************************)
EXTENDS Integers, Sequences, FiniteSets, TLC

\* Bounds of the model: how many calls of each operation a run makes.
MaxStarts == 2
MaxWaits == 2
MaxPosts == 2
MaxObservers == 2
MaxTime == 8
MaxRequests == 2
MaxStops == 2

\* Tokens the remote login endpoint may issue.
Tokens == {"T1", "T2"}

\* Submitted forms: the fields of the POST /login body (auth_server.py:200-201).
Forms ==
  { [email |-> "a@x.com", password |-> "pw"],
    [email |-> "",        password |-> "pw"],
    [email |-> "a@x.com", password |-> ""] }

\* What the remote login request does (auth_manager.py:124-176): a 200
\* response with a token, a 200 response without one, a non-200 response with
\* or without a "message", or a failure of the transport.
LoginOutcomes ==
  {"ok", "no_token", "non200_message", "non200_plain", "connect", "timeout",
   "http_error"}

\* A login response without "exp": data.get("exp") is None
\* (auth_manager.py:133).
NoExp == [given |-> FALSE, number |-> FALSE, value |-> 0]

\* The "exp" of a login response: none, the number 0, a number of minutes of
\* the model's clock, or a value that is not a number (a text).
ExpClaims ==
  { NoExp,
    [given |-> TRUE, number |-> TRUE, value |-> 0],
    [given |-> TRUE, number |-> TRUE, value |-> 10],
    [given |-> TRUE, number |-> FALSE, value |-> 0] }

\* timedelta(hours=1), in minutes.
Hour == 60

\* timedelta(minutes=5), the margin of is_token_expired.
Buffer == 5

\* Values of the NO_PROXY environment variable: absent, or the value
\* _make_request sets (client.py:85).
NoProxyValues == {"unset", "localhost,127.0.0.1"}

\* config.bypass_proxy (config.py:34, 67): proxy bypass is on by default.
bypass_proxy == TRUE

\* The two execution contexts that run login.
Contexts == {"loop", "listener"}

\* Callbacks an application registers; o2 raises when it is called.
Observers == {"o1", "o2"}

ObserverRaises(o) == o = "o2"

\* What webbrowser.open does (auth_server.py:310): launches a browser and
\* returns True, finds none and returns False, or raises.
BrowserOutcomes == {"opened", "not_opened", "raised"}

VARIABLES
  \* ---- AuthManager fields (auth_manager.py:22-33)
  auth_token,                \* "none" or a token
  credentials,               \* NoForm (None) or the form of the last successful login
  token_expiry,              \* NoExpiry (None) or the minute of expiry
  browser_auth_in_progress,  \* BOOLEAN
  browser_auth_event,        \* BOOLEAN: asyncio.Event._value
  event_loop,                \* _event_loop: "None" or "loop"
  \* ---- the caller's event loop
  waiters,                   \* the future of Event._waiters: "none", "pending", "done"
  ready,                     \* number of _set_event callbacks queued on the loop
  loop_blocked,              \* the loop sleeps in its selector, not login_log
  caller_pc,                 \* position of the caller task
  start_result,              \* last return value of start_browser_auth
  wait_result,               \* last return value of wait_for_browser_auth
  \* ---- AuthServer / AuthHandler
  server_running,            \* a listener is bound to the port and serving
  handler_pc,                \* position of the listener thread
  signal_no,                 \* which _signal_browser_auth_completed call runs (0: none)
  form,                      \* the form of the request being handled
  response,                  \* last JSON response: "none", "success", "failure"
  \* ---- history of the run (not program state)
  start_path,                \* the path the last start_browser_auth took
  wait_entry,                \* event and flag when the wait call was made
  wait_suspended,            \* the current/last wait call suspended
  wait_timed_out,            \* the current/last wait call ended by timeout
  wait_failed,               \* the current/last wait call ended by an unexpected exception
  raised_suspended,          \* a completion was raised while the waiter was suspended on a pending flow
  pending_flows,             \* flows started and not yet completed
  failed_in_flow,            \* a login submission failed during the current flow
  last_call,                 \* the operation the caller called last: "none", "start", "wait"
  n_starts, n_waits, n_posts,
  \* ---- AuthManager.auth_callbacks and login (auth_manager.py:29, 103-176)
  auth_callbacks,            \* the registered observers, in registration order
  local,                     \* per context: token and exp of the response, loop index
  raised,                    \* per context: the exception login raised, not yet caught
  now,                       \* datetime.now(), in minutes
  expired,                   \* last return value of is_token_expired
  \* ---- login and _login_with_stored_credentials called on the caller's loop
  c_form,                    \* email and password the login was called with
  fallback,                  \* the login runs inside _login_with_stored_credentials
  login_result,              \* "none", "ok"/"raised" (login), "true"/"false" (fallback)
  \* ---- history of the logins and of the request being handled
  login_log,                 \* per context: what its last login did, in order
  stored_by,                 \* which context wrote token, credentials, expiry last
  request,                   \* the request in the handler: kind, responses sent, ...
  posted,                    \* the caller's current/last call sent a login request
  \* ---- PayloadClient._make_request (client.py:46-175)
  no_proxy,                  \* os.environ["NO_PROXY"], "unset" when absent
  inflight,                  \* requests awaiting their response, by the NO_PROXY they saved
  \* ---- an AuthServer driven by its owner (auth_server.py:263-319)
  auth_server,               \* server, server_thread and the HTTPServer's shutdown flags
  \* ---- server.py and the operations of PayloadClient
  client,                    \* the global client: which instance (0: None) and its header
  tool_call,                 \* the current/last tool or client call
  initializing               \* per task: its call of initialize_client

manager == <<auth_token, credentials, token_expiry, browser_auth_in_progress,
             browser_auth_event, event_loop>>
loop == <<waiters, ready, loop_blocked, caller_pc, start_result, wait_result>>
server == <<server_running, handler_pc, signal_no, form, response>>
history == <<start_path, wait_entry, wait_suspended, wait_timed_out,
             wait_failed, raised_suspended, pending_flows, failed_in_flow, last_call,
             n_starts, n_waits, n_posts>>
observers == <<auth_callbacks, login_log>>
login_state == <<local, raised, stored_by>>
clock == <<now, expired>>
caller_login == <<c_form, fallback, login_result, posted>>
crud == <<no_proxy, inflight>>
frontend == <<auth_server, client, tool_call, initializing>>
extension_but_frontend ==
  <<observers, login_state, request, clock, caller_login, crud>>
extension == <<extension_but_frontend, frontend>>
vars == <<manager, loop, server, history, extension>>

NoEntry == [ev |-> FALSE, prog |-> FALSE]

\* No credentials stored (None, auth_manager.py:27), no request being handled.
NoForm == [email |-> "", password |-> ""]

\* No expiry known (None, auth_manager.py:26).
NoExpiry == [known |-> FALSE, at |-> 0]

\* No login response held.
NoLocal == [token |-> "none", exp |-> NoExp, i |-> 0]

\* No exception in flight.
NoError == [cause |-> "", type |-> "", message |-> ""]

\* An AuthServer as constructed (auth_server.py:266-270): no HTTPServer, no
\* thread.
NoServer ==
  [server |-> "None", thread |-> "none", socket |-> "none",
   shutdown_request |-> FALSE, is_shut_down |-> FALSE,
   returned |-> "none", stops |-> 0]

\* A request enters the handler (history of the request).
NewRequest(kind, called, sent) ==
  [kind |-> kind, responses |-> sent, login_called |-> called,
   login_ok |-> FALSE, signals |-> 0]

-----------------------------------------------------------------------------
(* The completion signal: AuthManager._signal_browser_auth_completed.      *)

\* Faulty variant of EventSet: signalling an event that is already set resets it
\* (the signal is a pulse instead of a latch).
EventSetPulse ==
  /\ browser_auth_event' = ~browser_auth_event
  /\ waiters' = IF ~browser_auth_event /\ waiters = "pending" THEN "done" ELSE waiters

\* auth_manager.py:58-59 with asyncio.Event.set: the value becomes true and
\* the futures waiting on the event get their result; setting an event that
\* is already set does nothing.
EventSet ==
  /\ browser_auth_event' = TRUE
  /\ waiters' = IF ~browser_auth_event /\ waiters = "pending" THEN "done" ELSE waiters

\* Faulty variant of FlowDone: the signal leaves the flow marked as in
\* progress.
FlowDoneKeepsFlag ==
  /\ UNCHANGED browser_auth_in_progress
  /\ pending_flows' = 0

\* auth_manager.py:60
FlowDone ==
  /\ browser_auth_in_progress' = FALSE
  /\ pending_flows' = 0

\* The closure _set_event, auth_manager.py:57-60, run in one piece (as a
\* callback of the loop).
set_event ==
  /\ EventSet
  /\ FlowDone

\* Faulty variant of UseLoop: the signal is never routed through the recorded loop;
\* the closure always runs on the signalling thread.
UseLoopNever == FALSE

\* auth_manager.py:64: a loop was recorded and is running.  The caller's loop
\* runs for the whole run, so is_running() is true of it.
UseLoop == event_loop = "loop"

\* loop.call_soon_threadsafe(_set_event), auth_manager.py:66: the callback is
\* queued and the loop's selector is woken.
call_soon_threadsafe ==
  /\ ready' = ready + 1
  /\ loop_blocked' = FALSE

-----------------------------------------------------------------------------
(* The caller's event loop.                                                *)

\* The loop runs callbacks and resumes a task only while no task is running
\* and the selector is not asleep.
LoopTurn == caller_pc \in {"idle", "suspended"} /\ ~loop_blocked

\* The loop runs a queued _set_event (queued at auth_manager.py:66).
LoopRunSetEvent ==
  /\ LoopTurn
  /\ ready > 0
  /\ ready' = ready - 1
  /\ set_event
  /\ UNCHANGED <<last_call, auth_token, credentials, token_expiry, event_loop,
                 loop_blocked, caller_pc, start_result, wait_result, server,
                 start_path, wait_entry, wait_suspended, wait_timed_out, wait_failed,
                 raised_suspended, failed_in_flow, n_starts, n_waits, n_posts>>
  /\ UNCHANGED extension

\* With nothing to run the loop goes to sleep in its selector.  A future
\* completed by Event.set from the listener thread schedules the task's wakeup
\* with call_soon, which does not wake the selector.
LoopBlock ==
  /\ LoopTurn
  /\ ready = 0
  /\ ~(caller_pc = "suspended" /\ waiters = "done")
  /\ loop_blocked' = TRUE
  /\ UNCHANGED <<manager, waiters, ready, caller_pc, start_result, wait_result,
                 server, history>>
  /\ UNCHANGED extension

\* Other activity of the process (I/O of the tool server, another timer)
\* wakes the selector.
LoopWake ==
  /\ loop_blocked
  /\ loop_blocked' = FALSE
  /\ UNCHANGED <<manager, waiters, ready, caller_pc, start_result, wait_result,
                 server, history>>
  /\ UNCHANGED extension

-----------------------------------------------------------------------------
(* AuthServer: start, open_browser, stop (auth_server.py:282-315).         *)

\* AuthServer.start, auth_server.py:282-297: HTTPServer binds localhost:port;
\* the bind fails while another listener holds the port, and may fail for
\* reasons outside the program (bindable = FALSE).
AuthServerStart(bindable) == bindable /\ ~server_running

\* AuthServer.open_browser, auth_server.py:306-315: the value of
\* webbrowser.open is dropped; only an exception gives False.
open_browser(outcome) == outcome # "raised"

-----------------------------------------------------------------------------
(* AuthManager.start_browser_auth, auth_manager.py:252-299.                *)

\* Faulty variant of AlreadyInProgress: the guard against a second flow is missing.
AlreadyInProgressNever == FALSE

\* auth_manager.py:259
AlreadyInProgress == browser_auth_in_progress

\* auth_manager.py:259-261: rejected, nothing written.
StartRejected ==
  /\ caller_pc = "idle"
  /\ n_starts < MaxStarts
  /\ AlreadyInProgress
  /\ start_result' = "false"
  /\ start_path' = "rejected"
  /\ n_starts' = n_starts + 1
  /\ loop_blocked' = FALSE
  /\ last_call' = "start"
  /\ UNCHANGED <<manager, waiters, ready, caller_pc, wait_result, server,
                 wait_entry, wait_suspended, wait_timed_out, wait_failed, raised_suspended,
                 pending_flows, failed_in_flow, n_waits, n_posts>>
  /\ UNCHANGED extension

\* auth_manager.py:259, 264
StartBegin ==
  /\ caller_pc = "idle"
  /\ n_starts < MaxStarts
  /\ ~AlreadyInProgress
  /\ browser_auth_in_progress' = TRUE
  /\ pending_flows' = pending_flows + 1
  /\ failed_in_flow' = FALSE
  /\ caller_pc' = "start_265"
  /\ start_result' = "none"
  /\ start_path' = "none"
  /\ n_starts' = n_starts + 1
  /\ loop_blocked' = FALSE
  /\ last_call' = "start"
  /\ UNCHANGED <<auth_token, credentials, token_expiry, browser_auth_event,
                 event_loop, waiters, ready, wait_result, server, wait_entry,
                 wait_suspended, wait_timed_out, wait_failed, raised_suspended, n_waits,
                 n_posts>>
  /\ UNCHANGED extension

\* auth_manager.py:265
StartClear ==
  /\ caller_pc = "start_265"
  /\ browser_auth_event' = FALSE
  /\ caller_pc' = "start_281"
  /\ UNCHANGED <<auth_token, credentials, token_expiry,
                 browser_auth_in_progress, event_loop, waiters, ready,
                 loop_blocked, start_result, wait_result, server, history>>
  /\ UNCHANGED extension

\* auth_manager.py:271-284: the listener is created and started; when it
\* fails to start the flag is cleared and the call returns False.
StartServer ==
  /\ caller_pc = "start_281"
  /\ \E bindable \in BOOLEAN :
       IF AuthServerStart(bindable)
       THEN /\ server_running' = TRUE
            /\ caller_pc' = "start_287"
            /\ UNCHANGED <<browser_auth_in_progress, pending_flows,
                           start_result, start_path>>
       ELSE /\ browser_auth_in_progress' = FALSE
            /\ pending_flows' = 0
            /\ start_result' = "false"
            /\ start_path' = "bind_failed"
            /\ caller_pc' = "idle"
            /\ UNCHANGED server_running
  /\ UNCHANGED <<last_call, auth_token, credentials, token_expiry, browser_auth_event,
                 event_loop, waiters, ready, loop_blocked, wait_result,
                 handler_pc, signal_no, form, response, wait_entry,
                 wait_suspended, wait_timed_out, wait_failed, raised_suspended,
                 failed_in_flow, n_starts, n_waits, n_posts>>
  /\ UNCHANGED extension

\* auth_manager.py:287-294.  On failure AuthServer.stop (auth_server.py:299-304)
\* shuts the listener down; shutdown() returns once serve_forever has left
\* its loop, that is when no request is being handled.
StartOpenBrowser ==
  /\ caller_pc = "start_287"
  /\ \E outcome \in BrowserOutcomes :
       IF open_browser(outcome)
       THEN /\ start_result' = "true"
            /\ start_path' = IF outcome = "opened" THEN "started" ELSE "started_page_not_opened"
            /\ UNCHANGED <<server_running, browser_auth_in_progress, pending_flows>>
       ELSE /\ handler_pc = "idle"
            /\ server_running' = FALSE
            /\ browser_auth_in_progress' = FALSE
            /\ pending_flows' = 0
            /\ start_result' = "false"
            /\ start_path' = "page_failed"
  /\ caller_pc' = "idle"
  /\ UNCHANGED <<last_call, auth_token, credentials, token_expiry, browser_auth_event,
                 event_loop, waiters, ready, loop_blocked, wait_result,
                 handler_pc, signal_no, form, response, wait_entry,
                 wait_suspended, wait_timed_out, wait_failed, raised_suspended,
                 failed_in_flow, n_starts, n_waits, n_posts>>
  /\ UNCHANGED extension

-----------------------------------------------------------------------------
(* AuthManager.wait_for_browser_auth, auth_manager.py:301-337.             *)

\* Faulty variant of AlreadySignaled: the early return on a set event is missing.
AlreadySignaledNever == FALSE

\* auth_manager.py:320: the event is already set.
AlreadySignaled == browser_auth_event

\* Faulty variant of NothingToWaitFor: the early return without a flow is missing.
NothingToWaitForNever == FALSE

\* auth_manager.py:324: no flow is active.
NothingToWaitFor == ~browser_auth_in_progress

\* The call returns `result` without (further) suspending.
WaitReturn(result) ==
  /\ wait_result' = result
  /\ caller_pc' = "idle"

\* auth_manager.py:311-316: the call records the running loop.
WaitCall ==
  /\ caller_pc = "idle"
  /\ n_waits < MaxWaits
  /\ event_loop' = "loop"
  /\ caller_pc' = "wait_320"
  /\ wait_result' = "none"
  /\ wait_entry' = [ev |-> browser_auth_event, prog |-> browser_auth_in_progress]
  /\ wait_suspended' = FALSE
  /\ wait_timed_out' = FALSE
  /\ wait_failed' = FALSE
  /\ raised_suspended' = FALSE
  /\ n_waits' = n_waits + 1
  /\ loop_blocked' = FALSE
  /\ last_call' = "wait"
  /\ UNCHANGED <<auth_token, credentials, token_expiry,
                 browser_auth_in_progress, browser_auth_event, waiters, ready,
                 start_result, server, start_path, pending_flows,
                 failed_in_flow, n_starts, n_posts>>
  /\ UNCHANGED extension

\* auth_manager.py:320-321
WaitCheckEvent ==
  /\ caller_pc = "wait_320"
  /\ IF AlreadySignaled
     THEN WaitReturn("true")
     ELSE caller_pc' = "wait_324" /\ UNCHANGED wait_result
  /\ UNCHANGED <<manager, waiters, ready, loop_blocked, start_result, server,
                 history>>
  /\ UNCHANGED extension

\* auth_manager.py:324-325
WaitCheckFlow ==
  /\ caller_pc = "wait_324"
  /\ IF NothingToWaitFor
     THEN WaitReturn("false")
     ELSE caller_pc' = "wait_328" /\ UNCHANGED wait_result
  /\ UNCHANGED <<manager, waiters, ready, loop_blocked, start_result, server,
                 history>>
  /\ UNCHANGED extension

\* auth_manager.py:328, first statement of asyncio.Event.wait: an event that
\* is set returns at once.
WaitEventValue ==
  /\ caller_pc = "wait_328"
  /\ IF browser_auth_event
     THEN WaitReturn("true")
     ELSE caller_pc' = "wait_append" /\ UNCHANGED wait_result
  /\ UNCHANGED <<manager, waiters, ready, loop_blocked, start_result, server,
                 history>>
  /\ UNCHANGED extension

\* auth_manager.py:328, rest of asyncio.Event.wait: a future is appended to
\* the event's waiters and the task suspends on it.  The value is not read
\* again: an Event.set that ran on the listener thread since the check found
\* no future to complete.
WaitSuspend ==
  /\ caller_pc = "wait_append"
  /\ waiters' = "pending"
  /\ caller_pc' = "suspended"
  /\ wait_suspended' = TRUE
  /\ UNCHANGED <<last_call, manager, ready, loop_blocked, start_result, wait_result,
                 server, start_path, wait_entry, wait_timed_out, wait_failed,
                 raised_suspended, pending_flows, failed_in_flow, n_starts,
                 n_waits, n_posts>>
  /\ UNCHANGED extension

\* auth_manager.py:328-329: the loop resumes the task whose future is done.
WakeWaiter ==
  /\ LoopTurn
  /\ caller_pc = "suspended"
  /\ waiters = "done"
  /\ waiters' = "none"
  /\ WaitReturn("true")
  /\ UNCHANGED <<manager, ready, loop_blocked, start_result, server, history>>
  /\ UNCHANGED extension

\* Faulty variant of WaitTimeout: the timeout returns False and leaves the flow
\* marked as in progress.
WaitTimeoutKeepsFlag ==
  /\ caller_pc = "suspended"
  /\ waiters = "pending"
  /\ waiters' = "none"
  /\ loop_blocked' = FALSE
  /\ wait_timed_out' = TRUE
  /\ UNCHANGED wait_failed
  /\ WaitReturn("false")
  /\ UNCHANGED <<last_call, auth_token, credentials, token_expiry,
                 browser_auth_in_progress, pending_flows, browser_auth_event,
                 event_loop, ready, start_result, server, start_path,
                 wait_entry, wait_suspended, raised_suspended, failed_in_flow,
                 n_starts, n_waits, n_posts>>
  /\ UNCHANGED extension

\* Faulty variant of WaitTimeout: the timeout is handled, the flow is marked
\* inactive, and the call awaits the event again instead of returning.
WaitTimeoutRewaits ==
  /\ caller_pc = "suspended"
  /\ waiters = "pending"
  /\ waiters' = "pending"
  /\ loop_blocked' = FALSE
  /\ browser_auth_in_progress' = FALSE
  /\ pending_flows' = 0
  /\ wait_timed_out' = TRUE
  /\ UNCHANGED <<wait_failed, caller_pc, wait_result>>
  /\ UNCHANGED <<last_call, auth_token, credentials, token_expiry, browser_auth_event,
                 event_loop, ready, start_result, server, start_path,
                 wait_entry, wait_suspended, raised_suspended, failed_in_flow,
                 n_starts, n_waits, n_posts>>
  /\ UNCHANGED extension

\* auth_manager.py:330-333: the timeout elapses before the future is done.
WaitTimeout ==
  /\ caller_pc = "suspended"
  /\ waiters = "pending"
  /\ waiters' = "none"
  /\ loop_blocked' = FALSE
  /\ browser_auth_in_progress' = FALSE
  /\ pending_flows' = 0
  /\ wait_timed_out' = TRUE
  /\ UNCHANGED wait_failed
  /\ WaitReturn("false")
  /\ UNCHANGED <<last_call, auth_token, credentials, token_expiry, browser_auth_event,
                 event_loop, ready, start_result, server, start_path,
                 wait_entry, wait_suspended, raised_suspended, failed_in_flow,
                 n_starts, n_waits, n_posts>>
  /\ UNCHANGED extension

\* Faulty variant of WaitFailure: the exception leaves the call and the flow stays
\* marked as in progress.
WaitFailurePropagates ==
  /\ caller_pc = "suspended"
  /\ waiters' = "none"
  /\ loop_blocked' = FALSE
  /\ wait_failed' = TRUE
  /\ WaitReturn("raised")
  /\ UNCHANGED <<last_call, manager, ready, start_result, server, start_path,
                 wait_entry, wait_suspended, wait_timed_out, raised_suspended,
                 pending_flows, failed_in_flow, n_starts, n_waits, n_posts>>
  /\ UNCHANGED extension

\* auth_manager.py:334-337: an exception other than the timeout is raised in
\* the call while it awaits the event (the future is withdrawn); it is
\* caught, the flow is marked inactive and the call returns False.
WaitFailure ==
  /\ caller_pc = "suspended"
  /\ waiters' = "none"
  /\ loop_blocked' = FALSE
  /\ browser_auth_in_progress' = FALSE
  /\ pending_flows' = 0
  /\ wait_failed' = TRUE
  /\ WaitReturn("false")
  /\ UNCHANGED <<last_call, auth_token, credentials, token_expiry, browser_auth_event,
                 event_loop, ready, start_result, server, start_path,
                 wait_entry, wait_suspended, wait_timed_out, raised_suspended,
                 failed_in_flow, n_starts, n_waits, n_posts>>
  /\ UNCHANGED extension

-----------------------------------------------------------------------------
(* AuthManager.login, auth_manager.py:103-176, as run by either context.   *)

\* auth_manager.py:129-136: the login succeeds on a 200 response with a token.
LoginSucceeds(outcome) == outcome = "ok"

\* auth_manager.py:135-136, 161-176: the exception a failed login raises.
\* Every failure, a transport failure included, is raised as
\* AuthenticationError; only a non-200 response carries the server's message.
LoginError(outcome) ==
  [ cause |-> outcome,
    type |-> "AuthenticationError",
    message |->
      CASE outcome = "no_token" -> "No token received from login response"
        [] outcome = "non200_message" -> "Login failed: server message"
        [] outcome = "non200_plain" -> "Login failed: Login failed with status"
        [] outcome = "connect" -> "Failed to connect to authentication server"
        [] outcome = "timeout" -> "Authentication request timeout"
        [] OTHER -> "HTTP error during authentication" ]

\* Faulty variant of login_store_token: the response is read and the token
\* of the manager is left as it was.
login_store_token_skipped(c, t, e) ==
  /\ UNCHANGED auth_token
  /\ local' = [local EXCEPT ![c] = [token |-> t, exp |-> e, i |-> 0]]
  /\ stored_by' = [stored_by EXCEPT !.token = c]
  /\ login_log' = [login_log EXCEPT ![c] = << <<"token", t>> >>]

\* auth_manager.py:130-139: the response is read and the token stored.
login_store_token(c, t, e) ==
  /\ auth_token' = t
  /\ local' = [local EXCEPT ![c] = [token |-> t, exp |-> e, i |-> 0]]
  /\ stored_by' = [stored_by EXCEPT !.token = c]
  /\ login_log' = [login_log EXCEPT ![c] = << <<"token", t>> >>]

\* auth_manager.py:140
login_store_credentials(c, f) ==
  /\ credentials' = f
  /\ stored_by' = [stored_by EXCEPT !.credentials = c]
  /\ login_log' = [login_log EXCEPT ![c] = Append(@, <<"credentials", f.email>>)]

\* auth_manager.py:143: `if exp` is false of None and of the number 0.
Truthy(exp) == exp.given /\ (exp.number => exp.value # 0)

\* Faulty variant of ExpiryOf: the expiry is one hour from now whatever the
\* response says.
ExpiryOfDefault(exp) == [known |-> TRUE, at |-> now + Hour]

\* auth_manager.py:143-151: the expiry is the response's exp when `if exp`
\* holds and datetime.fromtimestamp takes it; with a value that is not a
\* number fromtimestamp raises TypeError, which is caught (146-148), and
\* the expiry is one hour from now, as it is without an exp.
ExpiryOf(exp) ==
  IF Truthy(exp)
  THEN IF exp.number
       THEN [known |-> TRUE, at |-> exp.value]
       ELSE [known |-> TRUE, at |-> now + Hour]
  ELSE [known |-> TRUE, at |-> now + Hour]

\* auth_manager.py:143-151
login_store_expiry(c) ==
  /\ token_expiry' = ExpiryOf(local[c].exp)
  /\ stored_by' = [stored_by EXCEPT !.expiry = c]
  /\ login_log' = [login_log EXCEPT ![c] = Append(@, <<"expiry", "">>)]

\* Faulty variant of notify_observer: an exception of the observer is not
\* caught; it ends the notification.
notify_observer_propagates(c) ==
  LET o == auth_callbacks[local[c].i + 1] IN
  /\ login_log' = [login_log EXCEPT ![c] = Append(@, <<o, local[c].token>>)]
  /\ local' = [local EXCEPT ![c].i = IF ObserverRaises(o) THEN Len(auth_callbacks) ELSE @ + 1]

\* auth_manager.py:41-46, one iteration: the next registered observer is
\* called with the token of this login; what it raises is caught and logged.
notify_observer(c) ==
  /\ login_log' = [login_log EXCEPT ![c] =
                    Append(@, <<auth_callbacks[local[c].i + 1], local[c].token>>)]
  /\ local' = [local EXCEPT ![c].i = @ + 1]

\* auth_manager.py:156-160: login returns; its locals are gone.
login_returns(c) ==
  /\ local' = [local EXCEPT ![c] = NoLocal]
  /\ login_log' = [login_log EXCEPT ![c] = <<>>]

\* Faulty variant of MoreObservers: the iteration stops one element early.
MoreObserversButLast(c) == local[c].i + 1 < Len(auth_callbacks)

\* auth_manager.py:41: the iteration over the list goes on while it has a
\* next element (an observer appended meanwhile is met too).
MoreObservers(c) == local[c].i < Len(auth_callbacks)

-----------------------------------------------------------------------------
(* AuthHandler._handle_login on the listener thread, auth_server.py:192-239, *)
(* with AuthManager.login run by asyncio.run at line 218.                  *)

\* auth_server.py:204: both fields are present.
FormComplete(f) == f.email # "" /\ f.password # ""

\* Faulty variant of HandlePost: the refusal of a form without email or password
\* does not return; the handler goes on to the login.
HandlePostNoReturn ==
  /\ server_running
  /\ handler_pc = "idle"
  /\ n_posts < MaxPosts
  /\ n_posts' = n_posts + 1
  /\ \E malformed \in BOOLEAN, f \in Forms :
       IF malformed
       THEN /\ response' = "failure"
            /\ request' = NewRequest("malformed", FALSE, 1)
            /\ UNCHANGED <<handler_pc, form>>
       ELSE /\ handler_pc' = "login"
            /\ form' = f
            /\ response' = IF FormComplete(f) THEN "none" ELSE "failure"
            /\ request' = NewRequest(IF FormComplete(f) THEN "complete" ELSE "incomplete",
                                     TRUE, IF FormComplete(f) THEN 0 ELSE 1)
  /\ UNCHANGED <<last_call, manager, loop, server_running, signal_no, start_path,
                 wait_entry, wait_suspended, wait_timed_out, wait_failed, raised_suspended,
                 pending_flows, failed_in_flow, n_starts, n_waits>>
  /\ UNCHANGED <<observers, login_state, clock,
                 caller_login, crud, frontend>>

\* auth_server.py:194-218: a request is read.  A request without a usable
\* Content-Length raises at line 196 (caught at 234) and a form without email
\* or password is refused at lines 204-209: both get one failure response and
\* the handler returns.  Otherwise login is invoked and its request sent.
HandlePost ==
  /\ server_running
  /\ handler_pc = "idle"
  /\ n_posts < MaxPosts
  /\ n_posts' = n_posts + 1
  /\ \E malformed \in BOOLEAN, f \in Forms :
       IF malformed \/ ~FormComplete(f)
       THEN /\ response' = "failure"
            /\ request' = NewRequest(IF malformed THEN "malformed" ELSE "incomplete",
                                     FALSE, 1)
            /\ UNCHANGED <<handler_pc, form>>
       ELSE /\ handler_pc' = "login"
            /\ form' = f
            /\ response' = "none"
            /\ request' = NewRequest("complete", TRUE, 0)
  /\ UNCHANGED <<last_call, manager, loop, server_running, signal_no, start_path,
                 wait_entry, wait_suspended, wait_timed_out, wait_failed, raised_suspended,
                 pending_flows, failed_in_flow, n_starts, n_waits>>
  /\ UNCHANGED <<observers, login_state, clock,
                 caller_login, crud, frontend>>

\* auth_manager.py:129-139: the response arrived and is a success; the token
\* is stored.
LoginStore ==
  /\ handler_pc = "login"
  /\ \E outcome \in LoginOutcomes, t \in Tokens, e \in ExpClaims :
       /\ LoginSucceeds(outcome)
       /\ login_store_token("listener", t, e)
  /\ request' = [request EXCEPT !.login_ok = TRUE]
  /\ handler_pc' = "store_credentials"
  /\ UNCHANGED <<credentials, token_expiry, browser_auth_in_progress,
                 browser_auth_event, event_loop, loop, server_running,
                 signal_no, form, response, history, auth_callbacks, raised,
                 clock,
                 caller_login, crud, frontend>>

\* auth_manager.py:140
LoginStoreCredentials ==
  /\ handler_pc = "store_credentials"
  /\ login_store_credentials("listener", form)
  /\ handler_pc' = "store_expiry"
  /\ UNCHANGED <<auth_token, token_expiry, browser_auth_in_progress,
                 browser_auth_event, event_loop, loop, server_running,
                 signal_no, form, response, history, auth_callbacks, local,
                 raised, request, clock,
                 caller_login, crud, frontend>>

\* Faulty variant of LoginStoreExpiry: the expiry is left as it was.
LoginStoreExpirySkipped ==
  /\ handler_pc = "store_expiry"
  /\ handler_pc' = "notify"
  /\ UNCHANGED <<manager, loop, server_running, signal_no, form, response,
                 history, observers, login_state, request, clock,
                 caller_login, crud, frontend>>

\* auth_manager.py:143-153; _notify_auth_renewed is entered (line 154).
LoginStoreExpiry ==
  /\ handler_pc = "store_expiry"
  /\ login_store_expiry("listener")
  /\ handler_pc' = "notify"
  /\ UNCHANGED <<auth_token, credentials, browser_auth_in_progress,
                 browser_auth_event, event_loop, loop, server_running,
                 signal_no, form, response, history, auth_callbacks, local,
                 raised, request, clock,
                 caller_login, crud, frontend>>

\* auth_manager.py:41-48: the observers are called one by one, then the first
\* completion signal starts (line 48).
LoginNotify ==
  /\ handler_pc = "notify"
  /\ IF MoreObservers("listener")
     THEN /\ notify_observer("listener")
          /\ UNCHANGED <<handler_pc, signal_no>>
     ELSE /\ handler_pc' = "sig_read"
          /\ signal_no' = 1
          /\ UNCHANGED <<local, login_log>>
  /\ UNCHANGED <<manager, loop, server_running, form, response, history,
                 auth_callbacks, raised, stored_by, request, clock,
                 caller_login, crud, frontend>>

\* Faulty variant of LoginFail: the login that raises has dropped the
\* stored credential.
LoginFailClears ==
  /\ handler_pc = "login"
  /\ \E outcome \in LoginOutcomes :
       /\ ~LoginSucceeds(outcome)
       /\ raised' = [raised EXCEPT !["listener"] = LoginError(outcome)]
  /\ handler_pc' = "except"
  /\ credentials' = NoForm
  /\ UNCHANGED <<auth_token, token_expiry, browser_auth_in_progress,
                 browser_auth_event, event_loop, loop, server_running,
                 signal_no, form, response, history, observers, local,
                 stored_by, request, clock, caller_login, crud, frontend>>

\* auth_manager.py:135-136, 161-176: the login raises; asyncio.run passes the
\* exception on to the handler.
LoginFail ==
  /\ handler_pc = "login"
  /\ \E outcome \in LoginOutcomes :
       /\ ~LoginSucceeds(outcome)
       /\ raised' = [raised EXCEPT !["listener"] = LoginError(outcome)]
  /\ handler_pc' = "except"
  /\ UNCHANGED <<manager, loop, server_running, signal_no, form, response,
                 history, observers, local, stored_by, request, clock,
                 caller_login, crud, frontend>>

\* auth_server.py:234-239: the handler catches the exception and answers with
\* a failure.
HandlerExcept ==
  /\ handler_pc = "except"
  /\ raised' = [raised EXCEPT !["listener"] = NoError]
  /\ handler_pc' = "idle"
  /\ form' = NoForm
  /\ response' = "failure"
  /\ request' = [request EXCEPT !.responses = @ + 1]
  /\ failed_in_flow' = (failed_in_flow \/ browser_auth_in_progress)
  /\ UNCHANGED <<last_call, manager, loop, server_running, signal_no, start_path,
                 wait_entry, wait_suspended, wait_timed_out, wait_failed, raised_suspended,
                 pending_flows, n_starts, n_waits, n_posts>>
  /\ UNCHANGED <<observers, local, stored_by, clock,
                 caller_login, crud, frontend>>

\* After a completion signal returns: the first one (from login, line 154)
\* is followed by the handler's callback (auth_server.py:221-222,
\* auth_manager.py:274-277), which signals again; the second one by the
\* success response.
SignalReturns ==
  IF signal_no = 1
  THEN handler_pc' = "sig_read" /\ signal_no' = 2 /\ login_returns("listener")
  ELSE handler_pc' = "respond" /\ signal_no' = 0 /\ UNCHANGED <<local, login_log>>

\* auth_manager.py:62-69: the recorded loop is read.  With a loop the closure
\* is queued on it and the signal call returns; without one the closure is
\* run on this thread.
SignalRead ==
  /\ handler_pc = "sig_read"
  /\ raised_suspended' =
       (raised_suspended \/ (caller_pc = "suspended" /\ browser_auth_in_progress))
  /\ request' = [request EXCEPT !.signals = @ + 1]
  /\ IF UseLoop
     THEN /\ call_soon_threadsafe
          /\ SignalReturns
     ELSE /\ handler_pc' = "sig_set"
          /\ login_log' = IF signal_no = 1
                          THEN [login_log EXCEPT !["listener"] = Append(@, <<"signal", "">>)]
                          ELSE login_log
          /\ UNCHANGED <<ready, loop_blocked, signal_no, local>>
  /\ UNCHANGED <<last_call, manager, waiters, caller_pc, start_result, wait_result,
                 server_running, form, response, start_path, wait_entry,
                 wait_suspended, wait_timed_out, wait_failed, pending_flows, failed_in_flow,
                 n_starts, n_waits, n_posts>>
  /\ UNCHANGED <<auth_callbacks, raised, stored_by, clock, caller_login, crud, frontend>>

\* auth_manager.py:58-59 run on the listener thread (line 69).  A future
\* completed here schedules the task's wakeup without waking the loop.
SignalDirectSet ==
  /\ handler_pc = "sig_set"
  /\ EventSet
  /\ handler_pc' = "sig_flag"
  /\ UNCHANGED <<auth_token, credentials, token_expiry,
                 browser_auth_in_progress, event_loop, ready, loop_blocked,
                 caller_pc, start_result, wait_result, server_running,
                 signal_no, form, response, history>>
  /\ UNCHANGED <<observers, login_state, request, clock,
                 caller_login, crud, frontend>>

\* auth_manager.py:60 run on the listener thread.
SignalDirectFlag ==
  /\ handler_pc = "sig_flag"
  /\ FlowDone
  /\ SignalReturns
  /\ UNCHANGED <<last_call, auth_token, credentials, token_expiry, browser_auth_event,
                 event_loop, loop, server_running, form, response, start_path,
                 wait_entry, wait_suspended, wait_timed_out, wait_failed, raised_suspended,
                 failed_in_flow, n_starts, n_waits, n_posts>>
  /\ UNCHANGED <<auth_callbacks, raised, stored_by, request, clock,
                 caller_login, crud, frontend>>

\* auth_server.py:224-227
HandlerRespond ==
  /\ handler_pc = "respond"
  /\ handler_pc' = "idle"
  /\ form' = NoForm
  /\ response' = "success"
  /\ request' = [request EXCEPT !.responses = @ + 1]
  /\ UNCHANGED <<manager, loop, server_running, signal_no, history, observers,
                 login_state, clock,
                 caller_login, crud, frontend>>

-----------------------------------------------------------------------------
(* login and _login_with_stored_credentials called by the application on   *)
(* the caller's loop, auth_manager.py:103-192, and add_auth_callback.      *)

\* What the application calls login with.
CallerForms == {[email |-> "b@x.com", password |-> "pw2"]}

\* What the caller's login steps leave alone.
caller_frame ==
  <<waiters, ready, loop_blocked, start_result, wait_result, server,
    start_path, wait_entry, wait_suspended, wait_timed_out, wait_failed,
    raised_suspended, pending_flows, failed_in_flow, last_call, n_starts,
    n_waits, n_posts, request, clock, c_form, fallback, posted, crud, frontend>>

\* auth_manager.py:35-37: duplicates are not refused.
AddCallback ==
  /\ caller_pc \in {"idle", "login_post"}
  /\ Len(auth_callbacks) < MaxObservers
  /\ \E o \in Observers : auth_callbacks' = Append(auth_callbacks, o)
  /\ UNCHANGED <<manager, loop, server, history, login_log, login_state,
                 request, clock, caller_login, crud, frontend>>

\* The application calls one of the two operations: the call is entered.
CallerEnters(op, f, fb, sent) ==
  /\ last_call' = op
  /\ c_form' = f
  /\ fallback' = fb
  /\ posted' = sent
  /\ raised' = [raised EXCEPT !["loop"] = NoError]
  /\ login_log' = [login_log EXCEPT !["loop"] = <<>>]
  /\ UNCHANGED <<manager, waiters, ready, loop_blocked, start_result,
                 wait_result, server, start_path, wait_entry, wait_suspended,
                 wait_timed_out, wait_failed, raised_suspended, pending_flows,
                 failed_in_flow, n_starts, n_waits, n_posts, auth_callbacks,
                 local, stored_by, request, clock, crud, frontend>>

\* auth_manager.py:116-127: login is called and its request sent.
CallerLogin ==
  /\ caller_pc = "idle"
  /\ \E f \in CallerForms : CallerEnters("login", f, FALSE, TRUE)
  /\ caller_pc' = "login_post"
  /\ login_result' = "none"

\* auth_manager.py:180
HasCredentials == credentials # NoForm

\* auth_manager.py:178-186: without a stored credential the call returns
\* False at once; with one, login is called with it.
CallerFallback ==
  /\ caller_pc = "idle"
  /\ IF HasCredentials
     THEN /\ CallerEnters("fallback", credentials, TRUE, TRUE)
          /\ caller_pc' = "login_post"
          /\ login_result' = "none"
     ELSE /\ CallerEnters("fallback", NoForm, TRUE, FALSE)
          /\ caller_pc' = "idle"
          /\ login_result' = "false"

\* auth_manager.py:129-139 on the loop.
CallerLoginStore ==
  /\ caller_pc = "login_post"
  /\ \E outcome \in LoginOutcomes, t \in Tokens, e \in ExpClaims :
       /\ LoginSucceeds(outcome)
       /\ login_store_token("loop", t, e)
  /\ caller_pc' = "c_store_credentials"
  /\ UNCHANGED <<credentials, token_expiry, browser_auth_in_progress,
                 browser_auth_event, event_loop, auth_callbacks, raised,
                 login_result, caller_frame>>

\* auth_manager.py:140 on the loop.
CallerStoreCredentials ==
  /\ caller_pc = "c_store_credentials"
  /\ login_store_credentials("loop", c_form)
  /\ caller_pc' = "c_store_expiry"
  /\ UNCHANGED <<auth_token, token_expiry, browser_auth_in_progress,
                 browser_auth_event, event_loop, auth_callbacks, local,
                 raised, login_result, caller_frame>>

\* auth_manager.py:143-154 on the loop.
CallerStoreExpiry ==
  /\ caller_pc = "c_store_expiry"
  /\ login_store_expiry("loop")
  /\ caller_pc' = "c_notify"
  /\ UNCHANGED <<auth_token, credentials, browser_auth_in_progress,
                 browser_auth_event, event_loop, auth_callbacks, local,
                 raised, login_result, caller_frame>>

\* auth_manager.py:41-48 on the loop.
CallerNotify ==
  /\ caller_pc = "c_notify"
  /\ IF MoreObservers("loop")
     THEN /\ notify_observer("loop")
          /\ UNCHANGED caller_pc
     ELSE /\ caller_pc' = "c_sig_read"
          /\ UNCHANGED <<local, login_log>>
  /\ UNCHANGED <<manager, auth_callbacks, raised, stored_by, login_result,
                 caller_frame>>

\* auth_manager.py:156-160 and 186: login returns its result; inside
\* _login_with_stored_credentials the call returns True.
CallerReturns ==
  /\ caller_pc' = "idle"
  /\ login_result' = IF fallback THEN "true" ELSE "ok"
  /\ login_returns("loop")

\* auth_manager.py:62-69 on the loop: with a recorded loop the closure is
\* queued and login returns; without one the closure is run in place.
CallerSignalRead ==
  /\ caller_pc = "c_sig_read"
  /\ IF UseLoop
     THEN /\ call_soon_threadsafe
          /\ CallerReturns
     ELSE /\ caller_pc' = "c_sig_set"
          /\ login_log' = [login_log EXCEPT !["loop"] = Append(@, <<"signal", "">>)]
          /\ UNCHANGED <<ready, loop_blocked, login_result, local>>
  /\ UNCHANGED <<manager, waiters, start_result, wait_result, server, history,
                 auth_callbacks, raised, stored_by, request, clock, c_form,
                 fallback, posted, crud, frontend>>

\* auth_manager.py:58-59 on the loop.
CallerSignalSet ==
  /\ caller_pc = "c_sig_set"
  /\ EventSet
  /\ caller_pc' = "c_sig_flag"
  /\ UNCHANGED <<auth_token, credentials, token_expiry,
                 browser_auth_in_progress, event_loop, ready, loop_blocked,
                 start_result, wait_result, server, history, observers,
                 login_state, request, clock, c_form, fallback, login_result,
                 posted, crud, frontend>>

\* auth_manager.py:60 on the loop, then login returns.
CallerSignalFlag ==
  /\ caller_pc = "c_sig_flag"
  /\ FlowDone
  /\ CallerReturns
  /\ UNCHANGED <<auth_token, credentials, token_expiry, browser_auth_event,
                 event_loop, waiters, ready, loop_blocked, start_result,
                 wait_result, server, start_path, wait_entry, wait_suspended,
                 wait_timed_out, wait_failed, raised_suspended, failed_in_flow,
                 last_call, n_starts, n_waits, n_posts, auth_callbacks,
                 raised, stored_by, request, clock, c_form, fallback, posted,
                 crud, frontend>>

\* auth_manager.py:135-136, 161-176 on the loop: login raises.  Called by the
\* application the exception reaches it; inside
\* _login_with_stored_credentials it is caught at line 187.
CallerLoginFail ==
  /\ caller_pc = "login_post"
  /\ \E outcome \in LoginOutcomes :
       /\ ~LoginSucceeds(outcome)
       /\ raised' = [raised EXCEPT !["loop"] = LoginError(outcome)]
  /\ caller_pc' = IF fallback THEN "c_except" ELSE "c_raise"
  /\ UNCHANGED <<manager, observers, local, stored_by, login_result,
                 caller_frame>>

\* The exception leaves login and reaches the application.
CallerLoginRaises ==
  /\ caller_pc = "c_raise"
  /\ raised' = [raised EXCEPT !["loop"] = NoError]
  /\ caller_pc' = "idle"
  /\ login_result' = "raised"
  /\ UNCHANGED <<manager, observers, local, stored_by, caller_frame>>

\* Faulty variant of CallerFallbackExcept: the stored credential is kept after a
\* failed retry.
CallerFallbackExceptKeeps ==
  /\ caller_pc = "c_except"
  /\ raised' = [raised EXCEPT !["loop"] = NoError]
  /\ caller_pc' = "idle"
  /\ login_result' = "false"
  /\ UNCHANGED <<manager, observers, local, stored_by, caller_frame>>

\* auth_manager.py:187-192 with clear_credentials (86-89).
CallerFallbackExcept ==
  /\ caller_pc = "c_except"
  /\ raised' = [raised EXCEPT !["loop"] = NoError]
  /\ credentials' = NoForm
  /\ stored_by' = [stored_by EXCEPT !.credentials = "cleared"]
  /\ caller_pc' = "idle"
  /\ login_result' = "false"
  /\ UNCHANGED <<auth_token, token_expiry, browser_auth_in_progress,
                 browser_auth_event, event_loop, observers, local,
                 caller_frame>>

\* auth_manager.py:78-84: the application stores a credential.
SetCredentials ==
  /\ caller_pc = "idle"
  /\ \E f \in CallerForms : credentials' = f
  /\ stored_by' = [stored_by EXCEPT !.credentials = "set"]
  /\ UNCHANGED <<auth_token, token_expiry, browser_auth_in_progress,
                 browser_auth_event, event_loop, loop, server, history,
                 observers, local, raised, request, clock, caller_login, crud,
                 frontend>>

\* Faulty variant of ClearCredentials: the token is dropped with the
\* credential, the expiry is left.
ClearCredentialsDropsToken ==
  /\ caller_pc = "idle"
  /\ credentials' = NoForm
  /\ auth_token' = "none"
  /\ stored_by' = [stored_by EXCEPT !.credentials = "cleared"]
  /\ UNCHANGED <<token_expiry, browser_auth_in_progress,
                 browser_auth_event, event_loop, loop, server, history,
                 observers, local, raised, request, clock, caller_login, crud,
                 frontend>>

\* auth_manager.py:86-89: the application clears the stored credential.
ClearCredentials ==
  /\ caller_pc = "idle"
  /\ credentials' = NoForm
  /\ stored_by' = [stored_by EXCEPT !.credentials = "cleared"]
  /\ UNCHANGED <<auth_token, token_expiry, browser_auth_in_progress,
                 browser_auth_event, event_loop, loop, server, history,
                 observers, local, raised, request, clock, caller_login, crud,
                 frontend>>

-----------------------------------------------------------------------------
(* The clock and AuthManager.is_token_expired, auth_manager.py:194-202.    *)

\* Time passes.
Tick ==
  /\ now < MaxTime
  /\ now' = now + 1
  /\ UNCHANGED <<manager, loop, server, history, observers, login_state,
                 request, expired, caller_login, crud, frontend>>

\* Faulty variant of is_token_expired: the token counts as expired only after the
\* margin has begun, not at its first instant.
is_token_expired_strict ==
  IF ~token_expiry.known
  THEN FALSE
  ELSE now > token_expiry.at - Buffer

\* auth_manager.py:196-202
is_token_expired ==
  IF ~token_expiry.known
  THEN FALSE
  ELSE now >= token_expiry.at - Buffer

\* The application asks whether the token is expired.
CheckExpired ==
  /\ caller_pc \in {"idle", "login_post"}
  /\ expired' = IF is_token_expired THEN "true" ELSE "false"
  /\ UNCHANGED <<manager, loop, server, history, observers, login_state,
                 request, now, caller_login, crud, frontend>>

-----------------------------------------------------------------------------
(* PayloadClient._make_request, client.py:46-175, as run for create_object, *)
(* search_objects and update_object by tasks of the caller's loop.         *)

\* The requests awaiting their response.
InFlight == inflight["unset"] + inflight["localhost,127.0.0.1"]

\* What a request of the client leaves alone: the manager, the listener and
\* the caller's task.
crud_frame ==
  <<manager, waiters, ready, caller_pc, start_result, wait_result, server,
    history, observers, login_state, request, clock, caller_login, frontend>>

\* Faulty variant of RequestEnd: a request that ends drops the manager's token
\* (as a client would on a 401 answer).
RequestEndDropsToken ==
  /\ caller_pc \in {"idle", "suspended"}
  /\ \E v \in NoProxyValues :
       /\ inflight[v] > 0
       /\ inflight' = [inflight EXCEPT ![v] = @ - 1]
       /\ no_proxy' = IF bypass_proxy THEN v ELSE no_proxy
  /\ loop_blocked' = FALSE
  /\ auth_token' = "none"
  /\ UNCHANGED <<credentials, token_expiry, browser_auth_in_progress,
                 browser_auth_event, event_loop, waiters, ready, caller_pc,
                 start_result, wait_result, server, history, observers,
                 login_state, request, clock, caller_login, frontend>>

\* client.py:80-95: the task saves NO_PROXY, sets it when the bypass is on
\* and sends the request.  The task runs on the loop, which is awake for it.
RequestBegin ==
  /\ caller_pc \in {"idle", "suspended"}
  /\ InFlight < MaxRequests
  /\ inflight' = [inflight EXCEPT ![no_proxy] = @ + 1]
  /\ no_proxy' = IF bypass_proxy THEN "localhost,127.0.0.1" ELSE no_proxy
  /\ loop_blocked' = FALSE
  /\ UNCHANGED crud_frame

\* client.py:96-175: the response (or the failure of the transport) arrives
\* and wakes the loop; the finally clause puts back the NO_PROXY the request
\* saved, and the result is returned or an error raised to the tool call.
RequestEnd ==
  /\ caller_pc \in {"idle", "suspended"}
  /\ \E v \in NoProxyValues :
       /\ inflight[v] > 0
       /\ inflight' = [inflight EXCEPT ![v] = @ - 1]
       /\ no_proxy' = IF bypass_proxy THEN v ELSE no_proxy
  /\ loop_blocked' = FALSE
  /\ UNCHANGED crud_frame

-----------------------------------------------------------------------------
(* PayloadClient: what a response becomes (client.py:97-175), the checks   *)
(* of the three operations (client.py:199-203, 276-285, 424-431) and what  *)
(* they do with the outcome of the request (client.py:215-232, 334-354,    *)
(* 443-463).                                                               *)

\* Status codes a response may carry: success, redirection, and the client
\* and server errors the code tells apart.
Statuses == {200, 201, 301, 304, 400, 401, 403, 404, 418, 422, 429, 500, 503}

\* What the body of a response is: a JSON object without or with a
\* "message", text that is not JSON, or JSON that is not an object.
Bodies == {"object", "message", "text", "array"}

\* httpx.ConnectError, httpx.TimeoutException, another httpx.HTTPError.
TransportErrors == {"connect", "timeout", "http_error"}

\* What a request ends with: a response, or a failure of the transport.
Responses ==
  [status : Statuses, body : Bodies, transport : {"none"}]
    \cup [status : {0}, body : {"none"}, transport : TransportErrors]

\* No response yet.
NoResponse == [status |-> 0, body |-> "none", transport |-> "none"]

\* No outcome yet.
NoOutcome == [kind |-> "none", type |-> "", status_code |-> 0]

\* An exception of exceptions.py raised with this status_code (0: None).
Error(type, status_code) ==
  [kind |-> "error", type |-> type, status_code |-> status_code]

\* An exception that is not one of exceptions.py.
Raised(type) == [kind |-> "raised", type |-> type, status_code |-> 0]

\* client.py:158-161: the JSON of the response, or its text wrapped as data.
Result(r) ==
  [kind |-> "result",
   type |-> IF r.body = "text" THEN "data_text" ELSE "json",
   status_code |-> r.status]

\* client.py:100-106 and alike: the message is read from the body with
\* error_data.get; a body that is not JSON gives the default message, and
\* JSON that is not an object has no get, which raises AttributeError.
ErrorWithBody(r, type, status_code) ==
  IF r.body = "array" THEN Raised("AttributeError") ELSE Error(type, status_code)

\* Faulty variant of make_request: every status is answered with the JSON
\* of the response; only the transport raises.
make_request_unchecked(r) ==
  IF r.transport # "none" THEN Error("ConnectionError", 0) ELSE Result(r)

\* client.py:97-175: the status of the response is mapped to an exception;
\* a response with none of these statuses is returned as the result.
make_request(r) ==
  IF r.transport # "none"
  THEN Error("ConnectionError", 0)
  ELSE CASE r.status = 400 -> ErrorWithBody(r, "ValidationError", 0)
         [] r.status = 401 -> Error("AuthenticationError", 0)
         [] r.status = 403 -> ErrorWithBody(r, "APIError", r.status)
         [] r.status = 404 -> Error("NotFoundError", r.status)
         [] r.status = 422 -> ErrorWithBody(r, "ValidationError", 0)
         [] r.status = 429 -> Error("RateLimitError", r.status)
         [] r.status >= 500 -> ErrorWithBody(r, "APIError", r.status)
         [] r.status >= 400 /\ r.status \notin {400, 401, 403, 404, 422, 429}
              /\ r.status < 500 -> ErrorWithBody(r, "APIError", r.status)
         [] OTHER -> Result(r)

\* APIError and its subclasses (exceptions.py:25-51).
APIErrors == {"APIError", "NotFoundError", "RateLimitError"}

\* client.py:215-232, 334-354, 443-463: the operation passes the result and
\* the exceptions of exceptions.py on (an APIError of status 400 as a
\* ValidationError) and wraps any other exception in an APIError.
operation_outcome(out) ==
  CASE out.kind = "raised" -> Error("APIError", 0)
    [] out.kind = "error" /\ out.type \in APIErrors /\ out.status_code = 400
         -> Error("ValidationError", 0)
    [] OTHER -> out


-----------------------------------------------------------------------------
(* Arguments of the operations and the query parameters search_objects     *)
(* builds from them (client.py:289-323, 356-398).  A Python value is a     *)
(* record of its type, its text as str() gives it, and, for a dict, its    *)
(* items.                                                                  *)

Plain(type, v) == [type |-> type, v |-> v, items |-> <<>>]

BoolValue(b) == Plain("bool", IF b THEN "True" ELSE "False")

StrValue(v) == Plain("str", v)

IntValue(n) == Plain("int", ToString(n))

ListValue(v) == Plain("list", v)

DictValue(items) == [type |-> "dict", v |-> "", items |-> items]

\* No dict given: None or {} (both are skipped, client.py:292, 314-322).
NoDict == <<>>

\* Filters a search may be called with: a plain text, a plain boolean,
\* operators with plain values, an operator with a boolean, an operator
\* with a list.
Wheres ==
  { ("title" :> StrValue("hello")),
    ("published" :> BoolValue(TRUE)),
    ("title" :> DictValue("contains" :> StrValue("he")))
      @@ ("views" :> DictValue("greater_than" :> IntValue(3))),
    ("published" :> DictValue("equals" :> BoolValue(FALSE))),
    ("tags" :> DictValue("in" :> ListValue("[True, 'a']"))) }

\* Selections, populations and joins: plain booleans, nested booleans,
\* nested numbers.
Nesteds ==
  { ("title" :> BoolValue(TRUE)) @@ ("body" :> BoolValue(FALSE)),
    ("author" :> DictValue(("name" :> BoolValue(TRUE)) @@ ("age" :> BoolValue(FALSE)))),
    ("comments" :> DictValue("limit" :> IntValue(5))) }

\* str(value).lower() of a boolean (client.py:394, 398).
Lower(v) ==
  CASE v = "True" -> "true"
    [] v = "False" -> "false"
    [] OTHER -> v

\* json.dumps of a list (client.py:372).
JsonDumps(v) ==
  CASE v = "[True, 'a']" -> "[true, \"a\"]"
    [] OTHER -> v

\* f"{prefix}[{field}]" and f"{prefix}[{field}][{operator}]".
Key1(prefix, field) == prefix \o "[" \o field \o "]"

Key2(prefix, field, operator) == Key1(prefix, field) \o "[" \o operator \o "]"

\* The dict that holds these key/value pairs.
DictOf(entries) ==
  [k \in {e[1] : e \in entries} |-> (CHOOSE e \in entries : e[1] = k)[2]]

\* client.py:356-378: an operator dict gives one key per operator, its value
\* passed as it is, a list or dict JSON-encoded; any other value gives the
\* key of the equals operator with the value as it is.
build_where_params(where, prefix) ==
  DictOf(UNION {
    IF where[f].type = "dict"
    THEN { << Key2(prefix, f, op),
              IF where[f].items[op].type \in {"list", "dict"}
              THEN StrValue(JsonDumps(where[f].items[op].v))
              ELSE where[f].items[op] >> : op \in DOMAIN where[f].items }
    ELSE { << Key2(prefix, f, "equals"), where[f] >> }
    : f \in DOMAIN where })

\* Faulty variant of nested_value: booleans are passed as they are.
nested_value_raw(value) == value

\* client.py:394, 398: a boolean becomes its lowercase text.
nested_value(value) ==
  IF value.type = "bool" THEN StrValue(Lower(value.v)) ELSE value

\* client.py:380-398: a dict gives one key per nested key, any other value
\* the key of the field.
build_nested_params(nested_dict, param_type) ==
  DictOf(UNION {
    IF nested_dict[k].type = "dict"
    THEN { << Key2(param_type, k, nk), nested_value(nested_dict[k].items[nk]) >>
           : nk \in DOMAIN nested_dict[k].items }
    ELSE { << Key1(param_type, k), nested_value(nested_dict[k]) >> }
    : k \in DOMAIN nested_dict })

\* An argument that is given (not None) under its parameter name.
Given(name, optional, value(_)) ==
  DictOf({ << name, value(x) >> : x \in optional })

\* client.py:311
TrashText(b) == StrValue(IF b THEN "true" ELSE "false")

\* Arguments of a call: the fields of the three operations together.  An
\* optional argument is the empty set when it is None; collection_name and
\* object_id are "" and data is "none" when missing or empty.
NoArguments ==
  [present |-> FALSE, collection_name |-> "", data |-> "none",
   object_id |-> "", limit |-> {}, page |-> {}, depth |-> {}, sort |-> {},
   locale |-> {}, fallback_locale |-> {}, trash |-> {}, where |-> NoDict,
   select |-> NoDict, populate |-> NoDict, joins |-> NoDict]

\* client.py:289-323: the parameters of a search, in the order they are
\* assigned (a later assignment to the same key would win).
search_params(a) ==
  (IF a.joins # NoDict THEN build_nested_params(a.joins, "joins") ELSE <<>>)
  @@ (IF a.populate # NoDict THEN build_nested_params(a.populate, "populate") ELSE <<>>)
  @@ (IF a.select # NoDict THEN build_nested_params(a.select, "select") ELSE <<>>)
  @@ Given("trash", a.trash, TrashText)
  @@ Given("fallback-locale", a.fallback_locale, StrValue)
  @@ Given("locale", a.locale, StrValue)
  @@ Given("depth", a.depth, IntValue)
  @@ Given("sort", a.sort, StrValue)
  @@ Given("page", a.page, IntValue)
  @@ Given("limit", a.limit, IntValue)
  @@ (IF a.where # NoDict THEN build_where_params(a.where, "where") ELSE <<>>)

-----------------------------------------------------------------------------
(* The checks of the operations and of the tool handler, and the calls     *)
(* they are given.                                                         *)

ToolNames == {"create_object", "search_objects", "update_object", "delete_object"}

Operations == {"create_object", "search_objects", "update_object"}

\* A well-formed call of each operation.
CreateArguments ==
  [NoArguments EXCEPT !.present = TRUE, !.collection_name = "posts",
                      !.data = "object"]

UpdateArguments == [CreateArguments EXCEPT !.object_id = "id1"]

SearchArguments ==
  [NoArguments EXCEPT !.present = TRUE, !.collection_name = "posts"]

\* The calls of each operation: the well-formed one and those that differ
\* from it in one argument.
CallsOf(op) ==
  CASE op = "create_object" ->
         { CreateArguments,
           [CreateArguments EXCEPT !.collection_name = ""],
           [CreateArguments EXCEPT !.data = "none"] }
    [] op = "update_object" ->
         { UpdateArguments,
           [UpdateArguments EXCEPT !.collection_name = ""],
           [UpdateArguments EXCEPT !.object_id = ""],
           [UpdateArguments EXCEPT !.data = "none"] }
    [] OTHER ->
         { SearchArguments, [SearchArguments EXCEPT !.collection_name = ""] }
           \cup { [SearchArguments EXCEPT !.limit = {n}] : n \in {-1, 0, 5} }
           \cup { [SearchArguments EXCEPT !.page = {n}] : n \in {-1, 0, 2} }
           \cup { [SearchArguments EXCEPT !.depth = {n}] : n \in {-1, 0, 2} }
           \cup { [SearchArguments EXCEPT !.sort = {"-createdAt"}] }
           \cup { [SearchArguments EXCEPT !.locale = {"en"},
                                          !.fallback_locale = {"none"}] }
           \cup { [SearchArguments EXCEPT !.trash = {b}] : b \in BOOLEAN }
           \cup { [SearchArguments EXCEPT !.where = w] : w \in Wheres }
           \cup { [SearchArguments EXCEPT !.select = n] : n \in Nesteds }
           \cup { [SearchArguments EXCEPT !.populate = n] : n \in Nesteds }
           \cup { [SearchArguments EXCEPT !.joins = n] : n \in Nesteds }

\* What a tool call may carry as arguments: those of any operation, or none.
ToolArguments ==
  {NoArguments} \cup UNION { CallsOf(op) : op \in Operations }

\* Faulty variant of operation_check: nothing is checked before the request.
operation_check_none(op, a) == NoOutcome

\* client.py:199-203, 276-285, 424-431: what the operation checks before it
\* builds its request.
operation_check(op, a) ==
  LET missing ==
        CASE op = "create_object" ->
               a.collection_name = "" \/ a.data = "none"
          [] op = "update_object" ->
               a.collection_name = "" \/ a.object_id = "" \/ a.data = "none"
          [] OTHER ->
               \/ a.collection_name = ""
               \/ \E n \in a.limit : n <= 0
               \/ \E n \in a.page : n <= 0
               \/ \E n \in a.depth : n < 0
  IN IF missing THEN Error("ValidationError", 0) ELSE NoOutcome

\* server.py:147-203: what the handler does before it calls the client.
\* Without arguments arguments.get raises AttributeError; a missing
\* argument and an unknown tool raise ValueError.
handler_check(name, a) ==
  CASE name \notin Operations -> Raised("ValueError")
    [] ~a.present -> Raised("AttributeError")
    [] a.collection_name = "" -> Raised("ValueError")
    [] name = "update_object" /\ a.object_id = "" -> Raised("ValueError")
    [] name \in {"create_object", "update_object"} /\ a.data = "none"
         -> Raised("ValueError")
    [] OTHER -> NoOutcome

\* server.py:156, 172-178, 196: the arguments the handler passes on.
handler_arguments(name, a) ==
  CASE name = "create_object" ->
         [CreateArguments EXCEPT !.collection_name = a.collection_name,
                                 !.data = a.data]
    [] name = "update_object" ->
         [UpdateArguments EXCEPT !.collection_name = a.collection_name,
                                 !.object_id = a.object_id, !.data = a.data]
    [] OTHER ->
         [SearchArguments EXCEPT !.collection_name = a.collection_name,
                                 !.where = a.where, !.limit = a.limit,
                                 !.page = a.page, !.sort = a.sort]

\* server.py:157-160, 205-216: the text the handler returns.
TextOf(out) ==
  CASE out.kind = "result" -> "json"
    [] out.kind = "error" -> "error"
    [] OTHER -> "unexpected"

\* PAYLOAD_MCP_PAYLOAD__AUTH_TOKEN, the token of the configuration
\* (config.py:64).
ConfigToken == "T1"

\* server.py:32: no client yet.
NoClient == [instance |-> 0, authorization |-> "none"]

\* client.py:28-44: the n-th client constructed; its Authorization header is
\* built from the token of the configuration.
PayloadClient(n) == [instance |-> n, authorization |-> ConfigToken]

\* No call made yet.
NoCall ==
  [via |-> "none", name |-> "", arguments |-> NoArguments, pc |-> "idle",
   sent |-> 0, outcome |-> NoOutcome, text |-> "none", params |-> <<>>,
   original_no_proxy |-> "unset", escaped |-> FALSE,
   response |-> NoResponse, raw |-> NoOutcome, authorization |-> "none"]

-----------------------------------------------------------------------------
(* A call of an operation of the client, made by the application or by     *)
(* handle_call_tool (server.py:137-216) with initialize_client             *)
(* (server.py:35-57).  Fields of tool_call: who called (via), the tool or  *)
(* operation and its arguments, the position of the call (pc), the         *)
(* requests the operation sent, the response and what _make_request made   *)
(* of it (raw), what the operation returned or raised (outcome), the text  *)
(* the handler returned, and the parameters and saved NO_PROXY of the      *)
(* request.                                                                *)

\* What a call of the client leaves alone.
client_frame ==
  <<manager, loop, server, history, observers, login_state, request, clock,
    caller_login, inflight, auth_server, initializing>>

\* client.py:81-85: NO_PROXY once the request is sent.
NoProxySet == IF bypass_proxy THEN "localhost,127.0.0.1" ELSE no_proxy

\* client.py:162-168: NO_PROXY once the request is over.
NoProxyRestored == IF bypass_proxy THEN tool_call.original_no_proxy ELSE no_proxy

\* Faulty variant of request_headers: the request carries the token the
\* manager holds at the moment.
request_headers_of_manager(via) == auth_token

\* client.py:92: the request carries the headers built when the client was
\* constructed: by initialize_client for a tool call, by the application
\* from the same configuration otherwise.
request_headers(via) ==
  IF via = "tool" THEN client.authorization ELSE PayloadClient(1).authorization

\* The operation `name` is called with arguments a: it ends at once when its
\* check fails, else it builds and sends its request.
OperationBegins(via, name, a) ==
  LET check == operation_check(name, a) IN
  IF check # NoOutcome
  THEN /\ tool_call' =
            [NoCall EXCEPT !.via = via, !.name = name, !.arguments = a,
                           !.outcome = check,
                           !.text = IF via = "tool" THEN TextOf(check) ELSE "none"]
       /\ UNCHANGED no_proxy
  ELSE /\ tool_call' =
            [NoCall EXCEPT !.via = via, !.name = name, !.arguments = a,
                           !.pc = "request", !.sent = 1,
                           !.params = IF name = "search_objects"
                                      THEN search_params(a) ELSE <<>>,
                           !.original_no_proxy = no_proxy,
                           !.authorization = request_headers(via)]
       /\ no_proxy' = NoProxySet

\* The application calls create_object, search_objects or update_object.
ClientCall ==
  /\ tool_call.pc = "idle"
  /\ \E op \in Operations : \E a \in CallsOf(op) : OperationBegins("client", op, a)
  /\ UNCHANGED <<client, client_frame>>

\* client.py:96-175 and the except clauses of the operation: the response
\* (or the failure of the transport) arrives, NO_PROXY is put back, and the
\* operation returns or raises; the handler turns that into its text
\* (server.py:157-160, 205-216).
OperationResponseOf(responses) ==
  /\ tool_call.pc = "request"
  /\ \E r \in responses :
       LET out == operation_outcome(make_request(r)) IN
       tool_call' =
         [tool_call EXCEPT !.pc = "idle", !.response = r,
                           !.raw = make_request(r), !.outcome = out,
                           !.text = IF tool_call.via = "tool"
                                    THEN TextOf(out) ELSE "none"]
  /\ no_proxy' = NoProxyRestored
  /\ UNCHANGED <<client, client_frame>>

\* The request is answered by any response or failure of the transport.
OperationResponse == OperationResponseOf(Responses)

\* The request is answered with the object asked for, or refused with 401.
OperationAnswered ==
  OperationResponseOf({ [status |-> 200, body |-> "object", transport |-> "none"],
                        [status |-> 401, body |-> "message", transport |-> "none"] })

\* Faulty variant of ToolDispatch: the exception of the handler's own checks
\* leaves the handler.
ToolDispatchRaises ==
  /\ tool_call.pc = "dispatch"
  /\ LET h == handler_check(tool_call.name, tool_call.arguments) IN
     IF h # NoOutcome
     THEN /\ tool_call' = [tool_call EXCEPT !.pc = "idle", !.outcome = h,
                                            !.escaped = TRUE]
          /\ UNCHANGED no_proxy
     ELSE OperationBegins("tool", tool_call.name,
                          handler_arguments(tool_call.name, tool_call.arguments))
  /\ UNCHANGED <<client, client_frame>>

\* server.py:142-145: the handler reads the configuration (a value that does
\* not parse raises, server.py:211-216) and initializes the client: the
\* first call creates it and sends the connection test.
ToolCallOf(names, arguments) ==
  /\ tool_call.pc = "idle"
  /\ \E name \in names, a \in arguments, config_ok \in BOOLEAN :
       LET called == [NoCall EXCEPT !.via = "tool", !.name = name,
                                    !.arguments = a] IN
       IF ~config_ok
       THEN /\ tool_call' = [called EXCEPT !.outcome = Raised("ValueError"),
                                           !.text = TextOf(Raised("ValueError"))]
            /\ UNCHANGED <<client, no_proxy>>
       ELSE IF client = NoClient
            THEN /\ client' = PayloadClient(client.instance + 1)
                 /\ tool_call' = [called EXCEPT !.pc = "test",
                                                !.original_no_proxy = no_proxy]
                 /\ no_proxy' = NoProxySet
            ELSE /\ tool_call' = [called EXCEPT !.pc = "dispatch"]
                 /\ UNCHANGED <<client, no_proxy>>
  /\ UNCHANGED client_frame

\* Any tool is called, with any arguments.
ToolCall == ToolCallOf(ToolNames, ToolArguments)

\* The search tool is called with a collection name.
SearchCall == ToolCallOf({"search_objects"}, {SearchArguments})

\* server.py:44-55: the connection test ends; its result is logged and its
\* exception, whatever it is, is logged and dropped.
ToolConnectionTest ==
  /\ tool_call.pc = "test"
  /\ \E r \in Responses :
       tool_call' = [tool_call EXCEPT !.pc = "dispatch"]
  /\ no_proxy' = NoProxyRestored
  /\ UNCHANGED <<client, client_frame>>

\* server.py:147-216: the handler checks the tool and its arguments; what
\* it raises itself is caught at line 211 and returned as text; else the
\* operation of the client is called.
ToolDispatch ==
  /\ tool_call.pc = "dispatch"
  /\ LET h == handler_check(tool_call.name, tool_call.arguments) IN
     IF h # NoOutcome
     THEN /\ tool_call' = [tool_call EXCEPT !.pc = "idle", !.outcome = h,
                                            !.text = TextOf(h)]
          /\ UNCHANGED no_proxy
     ELSE OperationBegins("tool", tool_call.name,
                          handler_arguments(tool_call.name, tool_call.arguments))
  /\ UNCHANGED <<client, client_frame>>

-----------------------------------------------------------------------------
(* initialize_client (server.py:35-57) called by main at startup           *)
(* (server.py:231) and by the task of each tool call (server.py:145); the  *)
(* tasks share one event loop and change places only at an await.  Fields  *)
(* of initializing[k]: the position of the task's call (pc), the instance  *)
(* the call returned (0: none yet), what its connection test ended with,   *)
(* the NO_PROXY its request saved, and whether the call was made while     *)
(* another call awaited its connection test.                               *)

\* The startup and the tasks of two tool calls.
Initializers == {"main", "tool_1", "tool_2"}

\* The task has not called initialize_client.
NotCalled ==
  [pc |-> "none", returned |-> 0, test |-> NoOutcome,
   original_no_proxy |-> "unset", concurrent |-> FALSE]

\* What a call of the client leaves alone, and the call of a tool.
initialize_frame ==
  <<manager, loop, server, history, observers, login_state, request, clock,
    caller_login, inflight, auth_server, tool_call>>

\* server.py:44-55: what the connection test ends with: the result of
\* _make_request, the exception it raised, or the AttributeError of
\* result.get on JSON that is not an object.
connection_test(r) ==
  IF make_request(r).kind = "result" /\ r.body = "array"
  THEN Raised("AttributeError")
  ELSE make_request(r)

\* Faulty variant of InitializeCall: the call does not look at the global
\* client and constructs one of its own.
InitializeCallUnchecked(k) ==
  /\ initializing[k].pc \in {"none", "returned"}
  /\ k = "main" => initializing[k].pc = "none"
  /\ client' = PayloadClient(client.instance + 1)
  /\ initializing' =
       [initializing EXCEPT ![k] = [NotCalled EXCEPT !.pc = "test",
                                                     !.original_no_proxy = no_proxy]]
  /\ no_proxy' = NoProxySet
  /\ UNCHANGED initialize_frame

\* server.py:39-46, 57: the call constructs the client when there is none
\* and sends the connection test (its first await); else it returns the
\* client at once.  main calls once, a tool task with every call it handles.
InitializeCall(k) ==
  /\ initializing[k].pc \in {"none", "returned"}
  /\ k = "main" => initializing[k].pc = "none"
  /\ IF client = NoClient
     THEN /\ client' = PayloadClient(client.instance + 1)
          /\ initializing' =
               [initializing EXCEPT ![k] = [NotCalled EXCEPT !.pc = "test",
                                                             !.original_no_proxy = no_proxy]]
          /\ no_proxy' = NoProxySet
     ELSE /\ initializing' =
               [initializing EXCEPT ![k] =
                  [NotCalled EXCEPT !.pc = "returned",
                                    !.returned = client.instance,
                                    !.concurrent =
                                       \E j \in Initializers \ {k} :
                                          initializing[j].pc = "test"]]
          /\ UNCHANGED <<client, no_proxy>>
  /\ UNCHANGED initialize_frame

\* server.py:44-57: the connection test ends; its result is logged, its
\* exception is logged and dropped, and the call returns the global client.
InitializeTest(k) ==
  /\ initializing[k].pc = "test"
  /\ \E r \in Responses :
       initializing' =
         [initializing EXCEPT ![k].pc = "returned",
                              ![k].returned = client.instance,
                              ![k].test = connection_test(r)]
  /\ no_proxy' = IF bypass_proxy THEN initializing[k].original_no_proxy ELSE no_proxy
  /\ UNCHANGED <<client, initialize_frame>>

-----------------------------------------------------------------------------
(* AuthServer.start and AuthServer.stop called by the owner of the object, *)
(* auth_server.py:282-304, with HTTPServer.serve_forever and shutdown      *)
(* (socketserver.BaseServer).  Fields of auth_server: server (self.server), *)
(* thread (what the serve_forever thread does), socket (the listening      *)
(* socket), shutdown_request and is_shut_down (the flag and the Event of   *)
(* BaseServer); returned and stops are the history of the owner's calls.   *)

\* What the owner's calls leave alone.
owner_frame ==
  <<manager, waiters, ready, loop_blocked, start_result, wait_result,
    handler_pc, signal_no, form, response, history, extension_but_frontend,
    client, tool_call, initializing>>

\* auth_server.py:282-297: a new HTTPServer is bound and its serve_forever
\* thread started; when the bind fails the exception is caught, the object
\* keeps what it had and start returns False.
ServerStart ==
  /\ caller_pc = "idle"
  /\ \E bindable \in BOOLEAN :
       IF AuthServerStart(bindable)
       THEN /\ auth_server' =
                 [server |-> "HTTPServer", thread |-> "serving",
                  socket |-> "open", shutdown_request |-> FALSE,
                  is_shut_down |-> FALSE, returned |-> "start_true",
                  stops |-> 0]
            /\ server_running' = TRUE
       ELSE /\ auth_server' = [auth_server EXCEPT !.returned = "start_false"]
            /\ UNCHANGED server_running
  /\ UNCHANGED <<caller_pc, owner_frame>>

\* auth_server.py:301-302: without a server stop returns at once; with one
\* it calls shutdown, which raises the request flag and waits for the Event.
StopCall ==
  /\ caller_pc = "idle"
  /\ auth_server.stops < MaxStops
  /\ IF auth_server.server = "None"
     THEN /\ auth_server' = [auth_server EXCEPT !.returned = "stop",
                                                !.stops = @ + 1]
          /\ UNCHANGED caller_pc
     ELSE /\ auth_server' = [auth_server EXCEPT !.shutdown_request = TRUE,
                                                !.returned = "none"]
          /\ caller_pc' = "stop_wait"
  /\ UNCHANGED <<server_running, owner_frame>>

\* Faulty variant of ServeExit: the serving thread leaves its loop without
\* setting the Event shutdown waits for.
ServeExitSilent ==
  /\ auth_server.thread = "serving"
  /\ auth_server.shutdown_request
  /\ handler_pc = "idle"
  /\ auth_server' = [auth_server EXCEPT !.thread = "exited",
                                        !.shutdown_request = FALSE]
  /\ server_running' = FALSE
  /\ UNCHANGED <<caller_pc, owner_frame>>

\* serve_forever (socketserver): between two requests the loop reads the
\* request flag, leaves, lowers the flag and sets the Event.  A request
\* accepted before the flag is read is handled first.
ServeExit ==
  /\ auth_server.thread = "serving"
  /\ auth_server.shutdown_request
  /\ handler_pc = "idle"
  /\ auth_server' = [auth_server EXCEPT !.thread = "exited",
                                        !.shutdown_request = FALSE,
                                        !.is_shut_down = TRUE]
  /\ server_running' = FALSE
  /\ UNCHANGED <<caller_pc, owner_frame>>

\* auth_server.py:302-304: the Event is set, shutdown returns; server_close
\* closes the socket (closing a closed socket does nothing); stop returns.
StopWait ==
  /\ caller_pc = "stop_wait"
  /\ auth_server.is_shut_down
  /\ auth_server' = [auth_server EXCEPT !.socket = "closed",
                                        !.returned = "stop",
                                        !.stops = @ + 1]
  /\ caller_pc' = "idle"
  /\ UNCHANGED <<server_running, owner_frame>>

-----------------------------------------------------------------------------
\* The state after construction: AuthManager.__init__ (auth_manager.py:22-33),
\* no listener, no client yet (server.py:32), no call made.
Init ==
  /\ auth_token \in {"none", "T1"}      \* config.auth_token, optional
  /\ credentials = NoForm
  /\ token_expiry = NoExpiry
  /\ browser_auth_in_progress = FALSE
  /\ browser_auth_event = FALSE
  /\ event_loop = "None"
  /\ waiters = "none"
  /\ ready = 0
  /\ loop_blocked = FALSE
  /\ caller_pc = "idle"
  /\ start_result = "none"
  /\ wait_result = "none"
  /\ server_running = FALSE
  /\ handler_pc = "idle"
  /\ signal_no = 0
  /\ form = NoForm
  /\ response = "none"
  /\ start_path = "none"
  /\ wait_entry = NoEntry
  /\ wait_suspended = FALSE
  /\ wait_timed_out = FALSE
  /\ wait_failed = FALSE
  /\ raised_suspended = FALSE
  /\ pending_flows = 0
  /\ failed_in_flow = FALSE
  /\ last_call = "none"
  /\ n_starts = 0
  /\ n_waits = 0
  /\ n_posts = 0
  /\ auth_callbacks = <<>>
  /\ local = [c \in Contexts |-> NoLocal]
  /\ raised = [c \in Contexts |-> NoError]
  /\ now = 0
  /\ expired = "none"
  /\ login_log = [c \in Contexts |-> <<>>]
  /\ stored_by = [token |-> "none", credentials |-> "none", expiry |-> "none"]
  /\ request = NewRequest("none", FALSE, 0)
  /\ c_form = NoForm
  /\ fallback = FALSE
  /\ login_result = "none"
  /\ posted = FALSE
  /\ no_proxy = "unset"
  /\ inflight = [v \in NoProxyValues |-> 0]
  /\ auth_server = NoServer
  /\ client = NoClient
  /\ tool_call = NoCall
  /\ initializing = [k \in Initializers |-> NotCalled]

-----------------------------------------------------------------------------
Next ==
  \/ StartRejected
  \/ StartBegin
  \/ StartClear
  \/ StartServer
  \/ StartOpenBrowser
  \/ WaitCall
  \/ WaitCheckEvent
  \/ WaitCheckFlow
  \/ WaitEventValue
  \/ WaitSuspend
  \/ WakeWaiter
  \/ WaitTimeout
  \/ WaitFailure
  \/ LoopRunSetEvent
  \/ LoopBlock
  \/ LoopWake
  \/ HandlePost
  \/ LoginStore
  \/ LoginStoreCredentials
  \/ LoginStoreExpiry
  \/ LoginNotify
  \/ LoginFail
  \/ HandlerExcept
  \/ SignalRead
  \/ SignalDirectSet
  \/ SignalDirectFlag
  \/ HandlerRespond

Spec == Init /\ [][Next]_vars

\* A flow has been started: the state in which start_browser_auth has just
\* returned True (auth_manager.py:299), the listener serving, nothing else
\* done yet.
Started ==
  /\ credentials = NoForm
  /\ token_expiry = NoExpiry
  /\ browser_auth_in_progress = TRUE
  /\ browser_auth_event = FALSE
  /\ event_loop = "None"
  /\ waiters = "none" /\ ready = 0 /\ loop_blocked = FALSE
  /\ caller_pc = "idle"
  /\ start_result = "true"
  /\ wait_result = "none"
  /\ server_running = TRUE
  /\ handler_pc = "idle" /\ signal_no = 0 /\ form = NoForm
  /\ response = "none"
  /\ start_path = "started"
  /\ wait_entry = NoEntry
  /\ wait_suspended = FALSE /\ wait_timed_out = FALSE /\ wait_failed = FALSE /\ raised_suspended = FALSE
  /\ pending_flows = 1
  /\ failed_in_flow = FALSE
  /\ last_call = "start"
  /\ n_starts = 1 /\ n_waits = 0 /\ n_posts = 0
  /\ auth_callbacks = <<>>
  /\ local = [c \in Contexts |-> NoLocal]
  /\ raised = [c \in Contexts |-> NoError]
  /\ now = 0
  /\ expired = "none"
  /\ login_log = [c \in Contexts |-> <<>>]
  /\ stored_by = [token |-> "none", credentials |-> "none", expiry |-> "none"]
  /\ request = NewRequest("none", FALSE, 0)
  /\ c_form = NoForm /\ fallback = FALSE /\ login_result = "none" /\ posted = FALSE
  /\ no_proxy = "unset"
  /\ inflight = [v \in NoProxyValues |-> 0]
  /\ auth_server = NoServer
  /\ client = NoClient
  /\ tool_call = NoCall
  /\ initializing = [k \in Initializers |-> NotCalled]

\* Logins with a browser flow started: the listener's logins run on its
\* thread while the application calls login on its loop.
LoginInit ==
  /\ auth_token \in {"none", "T1"}
  /\ Started

LoginNext ==
  \/ HandlePost
  \/ LoginStore
  \/ LoginStoreCredentials
  \/ LoginStoreExpiry
  \/ LoginNotify
  \/ LoginFail
  \/ HandlerExcept
  \/ SignalRead
  \/ SignalDirectSet
  \/ SignalDirectFlag
  \/ HandlerRespond
  \/ CallerLogin
  \/ CallerLoginStore
  \/ CallerStoreCredentials
  \/ CallerStoreExpiry
  \/ CallerNotify
  \/ CallerSignalRead
  \/ CallerSignalSet
  \/ CallerSignalFlag
  \/ CallerLoginFail
  \/ CallerLoginRaises

LoginSpec == LoginInit /\ [][LoginNext]_vars

\* Renewal notifications with a browser flow started: the listener's logins
\* notify the observers the application registers meanwhile.
NotifyNext ==
  \/ HandlePost
  \/ LoginStore
  \/ LoginStoreCredentials
  \/ LoginStoreExpiry
  \/ LoginNotify
  \/ LoginFail
  \/ HandlerExcept
  \/ SignalRead
  \/ SignalDirectSet
  \/ SignalDirectFlag
  \/ HandlerRespond
  \/ AddCallback

NotifySpec == LoginInit /\ [][NotifyNext]_vars

\* Requests of the client while a browser flow is active: the caller waits
\* for the flow and the listener handles submissions while tool calls send
\* create, search and update requests.
CrudNext ==
  \/ WaitCall
  \/ WaitCheckEvent
  \/ WaitCheckFlow
  \/ WaitEventValue
  \/ WaitSuspend
  \/ WakeWaiter
  \/ WaitTimeout
  \/ WaitFailure
  \/ LoopRunSetEvent
  \/ LoopBlock
  \/ LoopWake
  \/ HandlePost
  \/ LoginStore
  \/ LoginStoreCredentials
  \/ LoginStoreExpiry
  \/ LoginNotify
  \/ LoginFail
  \/ HandlerExcept
  \/ SignalRead
  \/ SignalDirectSet
  \/ SignalDirectFlag
  \/ HandlerRespond
  \/ RequestBegin
  \/ RequestEnd

CrudSpec == LoginInit /\ [][CrudNext]_vars

\* The manager used without a browser flow: the application calls login and
\* _login_with_stored_credentials on its loop.
ManagerNext ==
  \/ CallerLogin
  \/ CallerLoginStore
  \/ CallerStoreCredentials
  \/ CallerStoreExpiry
  \/ CallerNotify
  \/ CallerSignalRead
  \/ CallerSignalSet
  \/ CallerSignalFlag
  \/ CallerLoginFail
  \/ CallerLoginRaises
  \/ CallerFallback
  \/ CallerFallbackExcept
  \/ Tick
  \/ CheckExpired

ManagerSpec == Init /\ [][ManagerNext]_vars

\* The manager in full use, from a started browser flow on: submissions to
\* the listener, further starts (they end at the bind, the first listener
\* holding the port), logins and stored-credential retries of the
\* application, and credentials set and cleared by it.
SessionNext ==
  \/ StartRejected
  \/ StartBegin
  \/ StartClear
  \/ StartServer
  \/ HandlePost
  \/ LoginStore
  \/ LoginStoreCredentials
  \/ LoginStoreExpiry
  \/ LoginNotify
  \/ LoginFail
  \/ HandlerExcept
  \/ SignalRead
  \/ SignalDirectSet
  \/ SignalDirectFlag
  \/ HandlerRespond
  \/ CallerLogin
  \/ CallerLoginStore
  \/ CallerStoreCredentials
  \/ CallerStoreExpiry
  \/ CallerNotify
  \/ CallerSignalRead
  \/ CallerSignalSet
  \/ CallerSignalFlag
  \/ CallerLoginFail
  \/ CallerLoginRaises
  \/ CallerFallback
  \/ CallerFallbackExcept
  \/ SetCredentials
  \/ ClearCredentials

SessionSpec == LoginInit /\ [][SessionNext]_vars

\* Searches through the tool handler while the manager's token changes: the
\* listener of a started browser flow logs submissions in, and the
\* application retries the login with the credential they stored.
HeaderNext ==
  \/ SearchCall
  \/ ToolConnectionTest
  \/ ToolDispatch
  \/ OperationAnswered
  \/ HandlePost
  \/ LoginStore
  \/ LoginStoreCredentials
  \/ LoginStoreExpiry
  \/ LoginNotify
  \/ LoginFail
  \/ HandlerExcept
  \/ SignalRead
  \/ SignalDirectSet
  \/ SignalDirectFlag
  \/ HandlerRespond
  \/ CallerFallback
  \/ CallerLoginStore
  \/ CallerStoreCredentials
  \/ CallerStoreExpiry
  \/ CallerNotify
  \/ CallerSignalRead
  \/ CallerSignalSet
  \/ CallerSignalFlag
  \/ CallerLoginFail
  \/ CallerFallbackExcept

HeaderSpec == LoginInit /\ [][HeaderNext]_vars

\* The operations of the client called by the application, one at a time.
ClientNext ==
  \/ ClientCall
  \/ OperationResponse

ClientSpec == Init /\ [][ClientNext]_vars

\* Tool calls handled one at a time.
ToolNext ==
  \/ ToolCall
  \/ ToolConnectionTest
  \/ ToolDispatch
  \/ OperationResponse

ToolSpec == Init /\ [][ToolNext]_vars

\* The startup and the tasks of the tool calls call initialize_client in any
\* order; a call made while another awaits its connection test runs up to
\* its own await or return.
InitializeNext ==
  \/ \E k \in Initializers : InitializeCall(k)
  \/ \E k \in Initializers : InitializeTest(k)

InitializeSpec == Init /\ [][InitializeNext]_vars

\* An AuthServer started and stopped by its owner, in any order, while its
\* listener thread handles submissions.  The listener thread keeps running:
\* its handler to the response, its serving loop to the exit once shutdown
\* is requested; the owner's stop goes on once the Event is set.
ServerNext ==
  \/ ServerStart
  \/ StopCall
  \/ StopWait
  \/ ServeExit
  \/ HandlePost
  \/ LoginStore
  \/ LoginStoreCredentials
  \/ LoginStoreExpiry
  \/ LoginNotify
  \/ LoginFail
  \/ HandlerExcept
  \/ SignalRead
  \/ SignalDirectSet
  \/ SignalDirectFlag
  \/ HandlerRespond

\* The scheduling the program runs under: the listener thread keeps running
\* its handler, the caller's task keeps running up to its next await, and an
\* awake loop runs what is ready.  Nothing obliges the timeout to elapse, the
\* selector to be woken by other activity, or a request to arrive.
ListenerStep ==
  LoginStore \/ LoginStoreCredentials \/ LoginStoreExpiry \/ LoginNotify
    \/ LoginFail \/ HandlerExcept \/ SignalRead \/ SignalDirectSet
    \/ SignalDirectFlag \/ HandlerRespond

CallerStep ==
  StartClear \/ StartServer \/ StartOpenBrowser \/ WaitCheckEvent
    \/ WaitCheckFlow \/ WaitEventValue \/ WaitSuspend

FairSpec ==
  /\ Spec
  /\ WF_vars(ListenerStep)
  /\ WF_vars(CallerStep)
  /\ WF_vars(LoopRunSetEvent)
  /\ WF_vars(WakeWaiter)

ServerSpec ==
  /\ Init
  /\ [][ServerNext]_vars
  /\ WF_vars(ListenerStep)
  /\ WF_vars(ServeExit)
  /\ WF_vars(StopWait)

-----------------------------------------------------------------------------
(* Claims.                                                                 *)

\* The completion has been delivered in full: the event is set, the listener
\* thread is out of its handler and no _set_event callback is queued.
CompletionDelivered ==
  browser_auth_event /\ handler_pc = "idle" /\ ready = 0

\* C1: for every interleaving of a completion raised on the listener thread
\* with wait_for_browser_auth on the loop, the one where the signaller reads
\* the loop handle before the waiter recorded it included, a suspended waiter
\* is woken by the completion: once the completion is delivered in full, a
\* waiter that is still suspended has its wakeup scheduled on an awake loop;
\* it is never left to wait for the timeout.
C1_SuspendedWaiterIsWoken ==
  (caller_pc = "suspended" /\ CompletionDelivered)
    => (waiters = "done" /\ ~loop_blocked)

\* C2: a completion raised from the listener thread while the waiter is
\* suspended on a pending flow makes wait_for_browser_auth return true, unless
\* the timeout elapsed first (or an unexpected exception ended the wait);
\* under fair scheduling the call does return.
C2_CrossContextSignalReceived ==
  /\ [](raised_suspended /\ last_call = "wait" /\ caller_pc = "idle"
            /\ ~wait_timed_out /\ ~wait_failed
          => wait_result = "true")
  /\ (raised_suspended /\ caller_pc = "suspended")
       ~> (caller_pc = "idle"
             /\ (wait_result = "true" \/ wait_timed_out \/ wait_failed))

C2_Witness ==
  /\ ~wait_failed
  /\ raised_suspended
  /\ wait_suspended
  /\ caller_pc = "idle"
  /\ last_call = "wait"
  /\ wait_result = "true"
  /\ ~wait_timed_out

\* The positions of wait_for_browser_auth past its two early returns.
PastEarlyReturns == {"wait_328", "wait_append", "suspended"}

\* C3: when the event is already set at the time wait_for_browser_auth is
\* called, the call returns true at its first check: it never reaches the
\* flow check or the wait, never suspends, and its result is true.
C3_SignaledBeforeWaitReturnsTrue ==
  (last_call = "wait" /\ wait_entry.ev)
    => /\ caller_pc \in {"wait_320", "idle"}
       /\ ~wait_suspended
       /\ (caller_pc = "idle" => wait_result = "true")

C3_Witness ==
  /\ last_call = "wait"
  /\ wait_entry.ev
  /\ caller_pc = "idle"
  /\ wait_result = "true"

\* A step of the caller inside wait_for_browser_auth.
WaitStep ==
  WaitCall \/ WaitCheckEvent \/ WaitCheckFlow \/ WaitEventValue \/ WaitSuspend
    \/ WakeWaiter \/ WaitTimeout

\* C4: a wait_for_browser_auth call made with no flow active and the event
\* not set never gets past its early returns and never suspends; none of its
\* steps writes the in-progress flag or the event; and it returns false
\* (unless a login on the listener thread set the event during the call).
C4_NothingToWaitForReturnsFalse ==
  /\ [](last_call = "wait" /\ ~wait_entry.ev /\ ~wait_entry.prog
          => caller_pc \notin PastEarlyReturns /\ ~wait_suspended)
  /\ [][ (WaitStep /\ ~wait_entry'.ev /\ ~wait_entry'.prog)
           => /\ UNCHANGED <<browser_auth_in_progress, browser_auth_event>>
              /\ (caller_pc' = "idle" /\ ~browser_auth_event
                    => wait_result' = "false") ]_vars

C4_Witness ==
  /\ last_call = "wait"
  /\ ~wait_entry.ev
  /\ ~wait_entry.prog
  /\ caller_pc = "idle"
  /\ wait_result = "false"
  /\ ~browser_auth_event
  /\ ~browser_auth_in_progress

\* A call of start_browser_auth: its first step.
StartCall == StartRejected \/ StartBegin

\* C5: start_browser_auth called while a flow is in progress returns false
\* and writes nothing (flag, event, listener, handler, token state, loop),
\* and at most one flow is pending at any time.
C5_StartWhilePendingRejected ==
  /\ [][ (StartCall /\ browser_auth_in_progress)
           => /\ start_result' = "false"
              /\ caller_pc' = "idle"
              /\ UNCHANGED <<manager, waiters, ready, server, pending_flows>> ]_vars
  /\ [](pending_flows <= 1)

C5_Witness ==
  /\ last_call = "start"
  /\ start_path = "rejected"
  /\ start_result = "false"
  /\ browser_auth_in_progress
  /\ server_running
  /\ pending_flows = 1

\* A step that runs the closure _set_event, or a part of it.
SetEventStep == LoopRunSetEvent \/ SignalDirectSet \/ SignalDirectFlag

\* C6: signalling completion again for a flow that is already completed
\* (event set, flow inactive) is a no-op: the event stays set, the flow stays
\* inactive, and neither the waiter's future, its position nor the result it
\* received changes.
C6_SecondSignalIsNoOp ==
  [][ (SetEventStep /\ browser_auth_event /\ ~browser_auth_in_progress)
        => /\ browser_auth_event'
           /\ ~browser_auth_in_progress'
           /\ UNCHANGED <<waiters, caller_pc, wait_result, start_result,
                          auth_token, credentials, token_expiry>> ]_vars

\* Both signals of one login have run and the waiter has its result.
C6_Witness ==
  /\ handler_pc = "respond"
  /\ ready = 0
  /\ browser_auth_event
  /\ ~browser_auth_in_progress
  /\ last_call = "wait"
  /\ wait_suspended
  /\ caller_pc = "idle"
  /\ wait_result = "true"

\* C7: a wait_for_browser_auth that times out returns false with the flow
\* marked inactive, and the next start_browser_auth is not rejected as already
\* in progress: it goes on to start a flow.
C7_TimeoutEndsFlow ==
  /\ [](last_call = "wait" /\ caller_pc = "idle" /\ wait_timed_out
          => wait_result = "false" /\ ~browser_auth_in_progress)
  /\ [][ (StartCall /\ last_call = "wait" /\ wait_timed_out)
           => start_path' # "rejected" /\ caller_pc' = "start_265" ]_vars

\* A start_browser_auth that followed a timed-out wait and was not rejected.
C7_Witness ==
  /\ wait_timed_out
  /\ wait_result = "false"
  /\ last_call = "start"
  /\ caller_pc = "idle"
  /\ start_path \in {"bind_failed", "page_failed", "started", "started_page_not_opened"}

\* C8: once a flow is completed (success, timeout or error) its listener is
\* torn down: whenever no flow is active and neither the caller nor the
\* listener thread is in the middle of an operation, no listener is bound to
\* the port.
C8_CompletedFlowHasNoListener ==
  (caller_pc = "idle" /\ handler_pc = "idle" /\ ~browser_auth_in_progress)
    => ~server_running

\* C9: when the listener fails to bind, or the listener starts but the page
\* fails to open, start_browser_auth returns false and the flow is not in
\* progress; in the second case the listener it started is not left running.
C9_FailedStartLeavesNothing ==
  (last_call = "start" /\ caller_pc = "idle")
    => /\ start_path = "bind_failed"
            => start_result = "false" /\ ~browser_auth_in_progress
       /\ start_path \in {"page_failed", "started_page_not_opened"}
            => /\ start_result = "false"
               /\ ~browser_auth_in_progress
               /\ ~server_running

\* C10: after a login submission that failed in the current flow, a later
\* successful submission completes the flow and wakes the waiter: once the
\* success is answered and delivered, the event is set, the flow inactive and
\* a waiter that is still suspended has its wakeup scheduled.
C10_RetryCompletesAndWakes ==
  (failed_in_flow /\ response = "success" /\ CompletionDelivered)
    => /\ ~browser_auth_in_progress
       /\ (caller_pc = "suspended" => waiters = "done")

\* C11: every POST /login submission (well-formed, malformed, without email
\* or password, or a duplicate) gets exactly one JSON response and no
\* exception leaves the handler; the response reports success exactly when
\* the login succeeded; login is not invoked for a malformed or incomplete
\* submission; and a completion signal is raised only after a successful
\* login.
C11_OneResponsePerSubmission ==
  /\ handler_pc # "idle" => request.responses = 0
  /\ (handler_pc = "idle" /\ request.kind # "none")
       => /\ request.responses = 1
          /\ raised["listener"] = NoError
          /\ (response = "success" <=> request.login_ok)
  /\ request.kind \in {"malformed", "incomplete"} => ~request.login_called
  /\ request.signals > 0 => request.login_ok

\* A duplicate submission answered with a success after both of its signals.
C11_Witness ==
  /\ n_posts = MaxPosts
  /\ handler_pc = "idle"
  /\ request.kind = "complete"
  /\ request.responses = 1
  /\ request.signals = 2
  /\ response = "success"

\* What a login has done so far, by kind: the observers called are the
\* entries that are none of the login's own steps.
OwnSteps == {"token", "credentials", "expiry", "signal"}

ObserverCalls(c) == SelectSeq(login_log[c], LAMBDA en : en[1] \notin OwnSteps)

\* The calls a login in context c owes the registered observers: each one
\* once, in registration order, with the token of this login.
CallsOwed(c) ==
  [j \in 1..Len(auth_callbacks) |-> <<auth_callbacks[j], local[c].token>>]

\* The listener's login returns: its first completion signal is done.
ListenerLoginReturns == SignalDirectFlag /\ signal_no = 1

\* The notification of the listener's login ends.
ListenerNotified == LoginNotify /\ ~MoreObservers("listener")

\* C12: a successful login stores the token, then the email/password pair,
\* then the expiry, then notifies the registered observers, then signals the
\* completion, and only then returns: what it has done is at any time a
\* prefix of that order, the notification ends with every observer then
\* registered called, and at the return all of it is done and in effect
\* (token, credential and expiry of this login stored, event set, flow
\* inactive).
C12_SuccessfulLoginOrder ==
  /\ [](LET l == login_log["listener"]
            n == Len(l) - Len(ObserverCalls("listener")) IN
        /\ Len(l) >= 1 => l[1][1] = "token"
        /\ Len(l) >= 2 => l[2][1] = "credentials"
        /\ Len(l) >= 3 => l[3][1] = "expiry"
        /\ \A j \in 4..Len(l) : l[j][1] = "signal" => j = Len(l)
        /\ n <= 4)
  /\ [][ ListenerNotified
           => /\ Len(login_log["listener"]) = 3 + Len(auth_callbacks)
              /\ Len(ObserverCalls("listener")) = Len(auth_callbacks) ]_vars
  /\ [][ ListenerLoginReturns
           => /\ Len(login_log["listener"]) >= 4
              /\ login_log["listener"][Len(login_log["listener"])][1] = "signal"
              /\ auth_token = local["listener"].token
              /\ credentials = form
              /\ token_expiry = ExpiryOf(local["listener"].exp)
              /\ browser_auth_event'
              /\ ~browser_auth_in_progress'
              /\ request.login_ok ]_vars

\* A login with two observers notified about to return.
C12_Witness ==
  /\ handler_pc = "sig_flag"
  /\ signal_no = 1
  /\ Len(login_log["listener"]) = 6
  /\ Len(auth_callbacks) = 2
  /\ browser_auth_event

\* The failures of the transport among the outcomes of the login request.
TransportFailures == {"connect", "timeout", "http_error"}

\* C13: the exception a failed login raises is a ConnectionError when the
\* transport failed (connect error, timeout, other transport error) and an
\* AuthenticationError when the response was not a 200 or was a 200 without a
\* token; the AuthenticationError of a response that has a message carries
\* that message.
C13_LoginFailureKinds ==
  \A c \in Contexts :
    raised[c] # NoError
      => /\ raised[c].cause \in TransportFailures
              => raised[c].type = "ConnectionError"
         /\ raised[c].cause \notin TransportFailures
              => raised[c].type = "AuthenticationError"
         /\ raised[c].cause = "non200_message"
              => raised[c].message = "Login failed: server message"

\* The login in context c has called an observer that raised.
RaisingCalled(c) ==
  \E j \in 1..Len(login_log[c]) : ObserverRaises(login_log[c][j][1])

\* C14: when an observer raises during the notification, no exception
\* leaves the notification, every registered observer (those after the one
\* that raised too) is called with the new token, the completion signal is
\* delivered (event set, flow inactive) and the login returns normally.
C14_RaisingObserverIsolated ==
  /\ [](RaisingCalled("listener")
          => /\ raised["listener"] = NoError
             /\ handler_pc \in {"notify", "sig_read", "sig_set", "sig_flag"})
  /\ [][ (ListenerNotified /\ RaisingCalled("listener"))
           => ObserverCalls("listener") = CallsOwed("listener") ]_vars
  /\ [][ (ListenerLoginReturns /\ RaisingCalled("listener"))
           => /\ browser_auth_event'
              /\ ~browser_auth_in_progress'
              /\ handler_pc' = "sig_read"
              /\ request.login_ok ]_vars

\* The observer that raises was called first, the other one after it, and
\* the signal is being delivered.
C14_Witness ==
  /\ auth_callbacks = <<"o2", "o1">>
  /\ Len(ObserverCalls("listener")) = 2
  /\ handler_pc = "sig_flag"
  /\ signal_no = 1
  /\ browser_auth_event

\* C15: a successful login calls every registered observer exactly once, in
\* registration order, with the token this login was issued: the calls made
\* so far are always the first ones of the calls owed, and when the
\* notification ends they are all of them.  A login that fails calls no
\* observer.
C15_EachObserverOnce ==
  /\ [](LET calls == ObserverCalls("listener") IN
        /\ Len(calls) <= Len(auth_callbacks)
        /\ \A j \in 1..Len(calls) : calls[j] = CallsOwed("listener")[j])
  /\ [][ ListenerNotified
           => ObserverCalls("listener") = CallsOwed("listener") ]_vars
  /\ [](handler_pc \in {"login", "except"} => login_log["listener"] = <<>>)
  /\ [][ HandlerExcept => login_log'["listener"] = <<>> ]_vars

\* Two observers called in registration order with the token just issued.
C15_Witness ==
  /\ handler_pc = "sig_read"
  /\ signal_no = 1
  /\ auth_callbacks = <<"o1", "o2">>
  /\ ObserverCalls("listener") = << <<"o1", "T2">>, <<"o2", "T2">> >>
  /\ n_posts = MaxPosts

\* C16: is_token_expired returns false whenever no expiry is known, and
\* otherwise returns true exactly when now >= expiry - 5 minutes: true at the
\* boundary now = expiry - 5 minutes, false one minute before it.
C16_ExpiryBoundary ==
  [][ CheckExpired
        => /\ ~token_expiry.known => expired' = "false"
           /\ token_expiry.known
                => /\ expired' = "true" <=> now + Buffer >= token_expiry.at
                   /\ now + Buffer = token_expiry.at => expired' = "true"
                   /\ now + Buffer + 1 = token_expiry.at => expired' = "false" ]_vars

\* The question was asked exactly at the boundary and answered with true.
C16_Witness ==
  /\ token_expiry.known
  /\ now + Buffer = token_expiry.at
  /\ expired = "true"

\* C17: _login_with_stored_credentials called with no credential stored
\* returns false without sending a request and writes nothing; when the
\* login it retries fails, whatever the failure, the exception is caught, the
\* stored credential is discarded and the call returns false; so a later call
\* finds no credential and returns false without a request, until a login
\* stores a new one.
C17_FallbackDiscardsCredential ==
  /\ [][ (CallerFallback /\ credentials = NoForm)
           => /\ login_result' = "false"
              /\ caller_pc' = "idle"
              /\ ~posted'
              /\ UNCHANGED manager ]_vars
  /\ [](fallback /\ raised["loop"] # NoError => caller_pc = "c_except")
  /\ [][ CallerFallbackExcept
           => /\ credentials' = NoForm
              /\ login_result' = "false"
              /\ caller_pc' = "idle" ]_vars
  /\ [](last_call = "fallback" /\ caller_pc = "idle" /\ login_result = "false"
          => credentials = NoForm)
  /\ [][ (CallerFallback /\ stored_by.credentials = "cleared")
           => ~posted' /\ login_result' = "false" ]_vars

\* A call made after the credential was discarded: it returned false and
\* sent no request.
C17_Witness ==
  /\ last_call = "fallback"
  /\ caller_pc = "idle"
  /\ login_result = "false"
  /\ ~posted
  /\ stored_by.credentials = "cleared"
  /\ auth_token # "none"

\* C18: logins are serialized: the writes of token, credential and expiry
\* of two logins that run concurrently, one on the loop and one on the
\* listener thread, do not interleave; once both contexts are out of their
\* logins the stored token, credential and expiry were all written by the
\* same login.
C18_LoginsSerialized ==
  (caller_pc = "idle" /\ handler_pc = "idle" /\ stored_by.token # "none")
    => /\ stored_by.credentials = stored_by.token
       /\ stored_by.expiry = stored_by.token

\* A step of a create, search or update request.
RequestStep == RequestBegin \/ RequestEnd

\* C19: create, search and update requests running while a browser flow is
\* active write none of the token, the expiry, the stored credential, the
\* in-progress flag and the completion event, nor anything else of the
\* manager, the listener or the waiting task; towards the flow a step of a
\* request is either invisible or the wakeup of the loop's selector that any
\* other activity of the process causes too, so the flow has the same
\* outcomes with the requests as without them.
C19_RequestsLeaveFlowAlone ==
  [][ RequestStep
        => /\ UNCHANGED <<auth_token, token_expiry, credentials,
                          browser_auth_in_progress, browser_auth_event>>
           /\ UNCHANGED <<manager, waiters, ready, caller_pc, start_result,
                          wait_result, server, history, observers,
                          login_state, request, clock, caller_login>>
           /\ \/ UNCHANGED loop_blocked
              \/ loop_blocked /\ ~loop_blocked' ]_vars

\* A request awaits its response while the waiter is suspended on the active
\* flow and the listener is in the middle of a login.
C19_Witness ==
  /\ InFlight = 1
  /\ no_proxy = "localhost,127.0.0.1"
  /\ browser_auth_in_progress
  /\ caller_pc = "suspended"
  /\ handler_pc = "store_expiry"

\* C20: an unexpected exception raised while wait_for_browser_auth is
\* suspended does not reach the caller: the call returns false and the flow
\* is marked inactive, with the waiter's future withdrawn, as after a
\* timeout.
C20_WaitFailureReturnsFalse ==
  /\ [][ WaitFailure
           => /\ wait_result' = "false"
              /\ caller_pc' = "idle"
              /\ ~browser_auth_in_progress'
              /\ waiters' = "none" ]_vars
  /\ [](last_call = "wait" /\ caller_pc = "idle" /\ wait_failed
          => wait_result = "false" /\ ~browser_auth_in_progress)

\* A wait on a started flow ended by an unexpected exception.
C20_Witness ==
  /\ last_call = "wait"
  /\ caller_pc = "idle"
  /\ wait_failed
  /\ wait_suspended
  /\ wait_result = "false"
  /\ server_running
  /\ ~browser_auth_in_progress

\* A step of the owner's stop call.
StopStep == StopCall \/ StopWait

\* What a stop leaves behind, as the owner and the port see it.
ListenerState ==
  <<auth_server.server, auth_server.thread, auth_server.socket,
    auth_server.is_shut_down, server_running>>

\* The listener has been stopped: its thread is out of serve_forever and its
\* socket closed.
Stopped ==
  /\ auth_server.server = "HTTPServer"
  /\ auth_server.thread = "exited"
  /\ auth_server.socket = "closed"

\* C21: AuthServer.stop may be called any number of times and in any state
\* of the listener.  On an object that never started, or whose start failed,
\* it returns at once and changes nothing; on a running listener it waits
\* for the serving thread (which finishes the request it is handling) and
\* always returns, leaving no listener on the port; on a stopped listener it
\* returns and leaves the state of the first stop.
C21_StopIdempotent ==
  /\ [][ (StopCall /\ auth_server.server = "None")
           => caller_pc' = "idle" /\ UNCHANGED ListenerState ]_vars
  /\ [](caller_pc = "stop_wait"
          => auth_server.is_shut_down \/ auth_server.thread = "serving")
  /\ (caller_pc = "stop_wait") ~> (caller_pc = "idle")
  /\ [](auth_server.returned = "stop" /\ caller_pc = "idle"
          => ~server_running /\ auth_server.socket # "open")
  /\ [][ (StopStep /\ Stopped) => UNCHANGED ListenerState ]_vars

\* The second stop of a listener that had answered a submission has
\* returned.
C21_Witness ==
  /\ Stopped
  /\ auth_server.stops = 2
  /\ auth_server.returned = "stop"
  /\ caller_pc = "idle"
  /\ response = "success"

\* C22: every tool call, whatever the tool name and the arguments (none
\* included), ends with a text: the JSON of the response when the operation
\* returned one, else an error string (the message of the operation's error,
\* or of the exception the handler caught); no exception leaves
\* handle_call_tool.
C22_ToolCallReturnsText ==
  tool_call.via = "tool"
    => /\ ~tool_call.escaped
       /\ tool_call.pc # "idle" => tool_call.text = "none"
       /\ tool_call.pc = "idle"
            => /\ tool_call.text \in {"json", "error", "unexpected"}
               /\ tool_call.text = "json"
                    <=> /\ tool_call.outcome.kind = "result"
                        /\ tool_call.response.transport = "none"
                        /\ tool_call.response.status # 0
               /\ tool_call.text = "error" <=> tool_call.outcome.kind = "error"
               /\ tool_call.text = "unexpected" <=> tool_call.outcome.kind = "raised"

\* An unknown tool called without arguments after the client was created.
C22_Witness ==
  /\ tool_call.via = "tool"
  /\ tool_call.pc = "idle"
  /\ tool_call.name = "delete_object"
  /\ ~tool_call.arguments.present
  /\ tool_call.text = "unexpected"
  /\ client # NoClient

\* The statuses of a successful response.
Success == 200..299

\* The exception the statement gives a response: of the status, or of the
\* failure of the transport.
StatedError(r) ==
  CASE r.transport # "none" -> "ConnectionError"
    [] r.transport = "none" /\ r.status \in {400, 422} -> "ValidationError"
    [] r.transport = "none" /\ r.status = 401 -> "AuthenticationError"
    [] r.transport = "none" /\ r.status = 404 -> "NotFoundError"
    [] r.transport = "none" /\ r.status = 429 -> "RateLimitError"
    [] OTHER -> "APIError"

\* C23: a request that was answered ends, in _make_request, with the JSON of
\* the response only when the status is 2xx; every other response and every
\* failure of the transport ends with the exception of exceptions.py stated
\* for it.
C23_StatusMapping ==
  (tool_call.via = "client" /\ tool_call.pc = "idle" /\ tool_call.sent = 1)
    => LET r == tool_call.response
           out == tool_call.raw
       IN IF r.transport = "none" /\ r.status \in Success
          THEN out.kind = "result"
          ELSE out.kind = "error" /\ out.type = StatedError(r)

\* C24: an operation called with a missing collection name, missing data,
\* a missing object id, a limit or page that is not positive, or a negative
\* depth raises ValidationError, and no request was sent for it: nothing was
\* answered, and NO_PROXY was not touched.
Malformed(op, a) ==
  \/ a.collection_name = ""
  \/ op \in {"create_object", "update_object"} /\ a.data = "none"
  \/ op = "update_object" /\ a.object_id = ""
  \/ op = "search_objects"
       /\ \/ \E n \in a.limit \cup a.page : n < 1
          \/ \E n \in a.depth : n < 0

C24_MalformedRejected ==
  /\ [](tool_call.via = "client" /\ Malformed(tool_call.name, tool_call.arguments)
          => /\ tool_call.pc = "idle"
             /\ tool_call.sent = 0
             /\ tool_call.response = NoResponse
             /\ tool_call.outcome = Error("ValidationError", 0))
  /\ [][ (ClientCall /\ Malformed(tool_call'.name, tool_call'.arguments))
           => UNCHANGED no_proxy ]_vars

\* A search of page 0 was rejected.
C24_Witness ==
  /\ tool_call.via = "client"
  /\ tool_call.name = "search_objects"
  /\ tool_call.arguments.page = {0}
  /\ tool_call.outcome.type = "ValidationError"
  /\ tool_call.sent = 0

\* The value a boolean is rendered as.
Lowercase(value) ==
  IF value.type = "bool"
  THEN StrValue(IF value.v = "True" THEN "true" ELSE "false")
  ELSE value

\* The keys a filter is flattened to.
WhereKeys(where) ==
  UNION { IF where[f].type = "dict"
          THEN { "where[" \o f \o "][" \o op \o "]" : op \in DOMAIN where[f].items }
          ELSE { "where[" \o f \o "][equals]" }
          : f \in DOMAIN where }

\* The keys a selection, population or join is flattened to.
NestedKeys(type, nested) ==
  UNION { IF nested[k].type = "dict"
          THEN { type \o "[" \o k \o "][" \o nk \o "]" : nk \in DOMAIN nested[k].items }
          ELSE { type \o "[" \o k \o "]" }
          : k \in DOMAIN nested }

\* The parameters p hold every entry of the filter under
\* where[field][operator] (a plain value under where[field][equals]) with
\* its value, a list as JSON text.
WhereFlattened(where, p) ==
  \A f \in DOMAIN where :
    IF where[f].type = "dict"
    THEN \A op \in DOMAIN where[f].items :
           LET key == "where[" \o f \o "][" \o op \o "]" IN
           /\ key \in DOMAIN p
           /\ IF where[f].items[op].type = "list"
              THEN p[key].type = "str"
              ELSE p[key] = where[f].items[op]
    ELSE LET key == "where[" \o f \o "][equals]" IN
         /\ key \in DOMAIN p
         /\ p[key] = where[f]

\* The parameters p hold every entry of the selection, population or join
\* under type[field], or type[field][nested], with its value, a boolean
\* as its lowercase text.
NestedFlattened(type, nested, p) ==
  \A k \in DOMAIN nested :
    IF nested[k].type = "dict"
    THEN \A nk \in DOMAIN nested[k].items :
           LET key == type \o "[" \o k \o "][" \o nk \o "]" IN
           key \in DOMAIN p /\ p[key] = Lowercase(nested[k].items[nk])
    ELSE LET key == type \o "[" \o k \o "]" IN
         key \in DOMAIN p /\ p[key] = Lowercase(nested[k])

\* A search of the client whose request was built.
Searched ==
  /\ tool_call.via = "client"
  /\ tool_call.name = "search_objects"
  /\ tool_call.sent = 1

\* The parameters of the search hold the flattened filter, selection,
\* population and joins, and no other bracketed key.
SearchFlattened ==
  LET a == tool_call.arguments
      p == tool_call.params
  IN /\ WhereFlattened(a.where, p)
     /\ NestedFlattened("select", a.select, p)
     /\ NestedFlattened("populate", a.populate, p)
     /\ NestedFlattened("joins", a.joins, p)
     /\ DOMAIN p \ {"limit", "page", "sort", "depth", "locale",
                    "fallback-locale", "trash"}
          = WhereKeys(a.where) \cup NestedKeys("select", a.select)
              \cup NestedKeys("populate", a.populate)
              \cup NestedKeys("joins", a.joins)

\* C25: the parameters search_objects builds hold every filter entry under
\* where[field][operator] (a plain value under equals) and every selection,
\* population and join entry under type[field] or type[field][nested]; the
\* boolean values of selections, populations, joins and trash are the
\* lowercase strings true and false, and a boolean value of a filter is
\* passed on as the boolean it is.
C25_SearchParams ==
  Searched
    => LET a == tool_call.arguments
           p == tool_call.params
       IN /\ SearchFlattened
          /\ \A b \in a.trash :
               p["trash"] = StrValue(IF b THEN "true" ELSE "false")
          /\ \A key \in DOMAIN p :
               p[key].type = "bool"
                 => /\ key \in WhereKeys(a.where)
                    /\ \E f \in DOMAIN a.where :
                         \/ a.where[f] = p[key]
                         \/ /\ a.where[f].type = "dict"
                            /\ \E op \in DOMAIN a.where[f].items :
                                 a.where[f].items[op] = p[key]

\* C25 as stated: the same flattening, and no value of the parameters is a
\* boolean: each is rendered as the lowercase string true or false.
C25_BooleansLowercase ==
  Searched
    => /\ SearchFlattened
       /\ \A key \in DOMAIN tool_call.params :
            /\ tool_call.params[key].type # "bool"
            /\ tool_call.params[key].v \notin {"True", "False"}

\* A search filtered by a plain boolean was sent: the parameter is the
\* boolean.
C25_Witness ==
  /\ Searched
  /\ "where[published][equals]" \in DOMAIN tool_call.params
  /\ tool_call.params["where[published][equals]"] = BoolValue(TRUE)

\* C26: the completion event is set only while a flow is active (a login
\* made while no flow is active leaves it clear), and it is cleared only by
\* start_browser_auth (auth_manager.py:265).
C26_EventTransitions ==
  /\ [][ (~browser_auth_event /\ browser_auth_event')
           => browser_auth_in_progress ]_vars
  /\ [][ (browser_auth_event /\ ~browser_auth_event')
           => caller_pc = "start_265" /\ caller_pc' = "start_281" ]_vars

\* A call of wait_for_browser_auth is executing.
Waiting ==
  caller_pc \in {"wait_320", "wait_324", "wait_328", "wait_append", "suspended"}

\* C27: a loop is recorded in _event_loop only while a call of
\* wait_for_browser_auth is executing, so no completion raised while no call
\* is executing is queued on a recorded loop.
C27_LoopRecordedOnlyWhileWaiting ==
  /\ [](event_loop # "None" => Waiting)
  /\ [][ (SignalRead /\ ready' > ready) => Waiting ]_vars

\* C28: an expiry is recorded only when a token is set, whatever logins,
\* failed logins, stored-credential retries, clears of the credential and
\* browser flows have run.
C28_ExpiryOnlyWithToken == token_expiry.known => auth_token # "none"

\* After a submission of the browser flow succeeded, a retry with the
\* stored credential failed and cleared it; the expiry and the token stay.
C28_Witness ==
  /\ token_expiry.known
  /\ auth_token # "none"
  /\ response = "success"
  /\ caller_pc = "idle"
  /\ fallback
  /\ login_result = "false"
  /\ credentials = NoForm

\* The expiry when the exp of the response is taken whenever there is one.
ExpWheneverGiven(exp) == IF exp.given THEN exp.value ELSE now + Hour

\* The expiry when the exp of the response is taken only when it is a number
\* other than 0.
ExpWhenUsable(exp) ==
  IF exp.given /\ exp.number /\ exp.value # 0 THEN exp.value ELSE now + Hour

\* A login of the application has returned its result.
LoginReturned == caller_pc = "idle" /\ login_result \in {"ok", "true"}

LaterFlowBegun ==
  /\ caller_pc \in {"start_265", "start_281"}
  /\ wait_result = "true"
  /\ request.login_ok

\* C30: once the waiter of a flow has returned and a new flow has begun, no
\* completion signal of the earlier flow's login sets the event or clears
\* the in-progress flag of the new flow.
C30_NoLeftoverSignal ==
  [][ (LaterFlowBegun /\ (SignalDirectSet \/ SignalDirectFlag))
        => /\ browser_auth_event' = browser_auth_event
           /\ browser_auth_in_progress' = browser_auth_in_progress ]_vars

\* C31: whenever the completion event is set a token is stored, and a call
\* of wait_for_browser_auth that returned True left the manager with a
\* token: the event is set only by the signals of a login that has stored
\* its token, and the token is never removed.
C31_EventImpliesToken ==
  /\ browser_auth_event => auth_token # "none"
  /\ ready > 0 => auth_token # "none"
  /\ handler_pc \in {"sig_read", "sig_set", "sig_flag"} => auth_token # "none"
  /\ wait_result = "true" => auth_token # "none"

\* A manager constructed without a token: the waiter, suspended on the
\* flow, was woken by the submission's login and returned True.
C31_Witness ==
  /\ wait_result = "true"
  /\ wait_suspended
  /\ browser_auth_event
  /\ stored_by.token = "listener"
  /\ auth_token = "T2"
  /\ caller_pc = "idle"

\* C32: once every request of the client has finished, NO_PROXY is as it
\* was before the first one began (absent, in this model), in whatever
\* order the requests began and ended.
C32_NoProxyRestoredAfterAll == InFlight = 0 => no_proxy = "unset"

\* What a login may write of the manager and of the flow.
LoginEffects ==
  <<auth_token, token_expiry, credentials, browser_auth_event,
    browser_auth_in_progress, ready>>

\* The observers called by the listener's login under way.
Notified(c) == { login_log[c][k][1] : k \in DOMAIN login_log[c] } \cap Observers

\* C33: a login that fails (failure of the transport, a response that is
\* not 200, a 200 response without a token) writes nothing: from the request
\* to the exception reaching the handler, token, expiry, credential, event
\* and flag are left as they were, no signal is raised and no observer is
\* called.
C33_FailedLoginWritesNothing ==
  /\ [][ (HandlePost \/ LoginFail \/ HandlerExcept)
           => UNCHANGED <<LoginEffects, login_log>> ]_vars
  /\ [](handler_pc \in {"login", "except"} => Notified("listener") = {})
  /\ [](handler_pc = "except"
          => ~request.login_ok /\ request.signals = 0)

\* With two observers registered and a credential stored by an earlier
\* submission, a login has failed on a response without a token.
C33_Witness ==
  /\ handler_pc = "except"
  /\ raised["listener"].cause = "no_token"
  /\ Len(auth_callbacks) = 2
  /\ credentials # NoForm
  /\ auth_token # "none"
  /\ browser_auth_event

\* C34: the Authorization header of the global client is the token of the
\* configuration from its construction on: every request of a tool call
\* carries it, whatever token the manager holds, and no step that writes
\* the manager's token, credential, expiry, event or flag touches the client
\* or the request.
C34_HeaderFixedAtConstruction ==
  /\ [](client # NoClient => client.authorization = ConfigToken)
  /\ [](tool_call.via = "tool" /\ tool_call.sent = 1
          => tool_call.authorization = ConfigToken)
  /\ [][ client # NoClient => client' = client ]_vars
  /\ [][ manager' # manager => UNCHANGED <<client, tool_call>> ]_vars

\* A search is awaiting its response with the header of the configuration
\* after a submission of the browser flow and a retry with the stored
\* credential have each stored a token, the manager now holding another one.
C34_Witness ==
  /\ tool_call.via = "tool"
  /\ tool_call.pc = "request"
  /\ tool_call.authorization = ConfigToken
  /\ auth_token # ConfigToken
  /\ auth_token # "none"
  /\ stored_by.token = "loop"
  /\ response = "success"
  /\ login_result = "true"

\* No operation is in the middle of a step: the caller's task is between
\* calls or suspended in its wait, and the listener thread is not between
\* the two statements of _set_event.
Quiescent ==
  /\ caller_pc \in {"idle", "suspended"}
  /\ handler_pc \notin {"sig_set", "sig_flag"}

\* C35: whenever no operation is in the middle of a step, the completion
\* event is not set while a flow is in progress.
C35_EventAndFlowExclusive ==
  Quiescent => ~(browser_auth_event /\ browser_auth_in_progress)

\* The caller has started a second flow after the first was completed, and
\* a signal of the first flow's login has set the event since: the event is
\* set and no flow is in progress.
C35_Witness ==
  /\ Quiescent
  /\ handler_pc = "idle"
  /\ n_starts = 2
  /\ last_call = "start"
  /\ browser_auth_event
  /\ ~browser_auth_in_progress


-----------------------------------------------------------------------------
(* Termination of wait_for_browser_auth with a finite timeout.             *)

\* auth_manager.py:328: asyncio.wait_for arms a timer for the timeout on the
\* caller's loop.  The selector sleeps no longer than the nearest timer, so
\* at the deadline at the latest the loop is awake and resumes a task whose
\* future was completed from the listener thread.
TimeoutWakesSelector == caller_pc = "suspended" /\ LoopWake

\* Fair scheduling with a finite timeout: besides FairSpec, the timeout of a
\* wait whose future is still pending elapses, and the timer wakes the
\* selector.  Nothing obliges a request to arrive.
TimedSpec ==
  /\ FairSpec
  /\ WF_vars(WaitTimeout)
  /\ WF_vars(TimeoutWakesSelector)

\* C36: every call of wait_for_browser_auth with a finite timeout returns,
\* under every interleaving with the listener thread: at line 320 it returns
\* true at once when the event is set, at line 324 false at once when no
\* flow is active; a suspended call returns only because the event was set
\* (true), the timeout elapsed or the wait failed (false); and every call
\* that is executing eventually returns.
C36_WaitReturns ==
  /\ [][ (caller_pc = "wait_320" /\ browser_auth_event /\ caller_pc' # caller_pc)
           => caller_pc' = "idle" /\ wait_result' = "true" ]_vars
  /\ [][ (caller_pc = "wait_324" /\ ~browser_auth_in_progress
             /\ caller_pc' # caller_pc)
           => caller_pc' = "idle" /\ wait_result' = "false" ]_vars
  /\ [][ (caller_pc = "suspended" /\ caller_pc' # caller_pc)
           => /\ caller_pc' = "idle"
              /\ \/ browser_auth_event /\ wait_result' = "true"
                 \/ (wait_timed_out' \/ wait_failed') /\ wait_result' = "false" ]_vars
  /\ Waiting ~> (caller_pc = "idle" /\ last_call = "wait"
                   /\ wait_result \in {"true", "false"})

\* The call returned at its timeout although the event had been set while it
\* was suspended: the completion was raised on the listener thread and its
\* Event.set found no future to complete.
C36_Witness ==
  /\ caller_pc = "idle"
  /\ last_call = "wait"
  /\ wait_suspended
  /\ wait_timed_out
  /\ browser_auth_event
  /\ wait_result = "false"


-----------------------------------------------------------------------------
(* One client for all callers of initialize_client.                        *)

\* C37: however the startup and the tasks of tool calls interleave,
\* initialize_client constructs at most one PayloadClient and never replaces
\* it; every call that returned, returned that instance; and a call whose
\* connection test ends, with whatever result or exception, returns it.
C37_SingleClient ==
  /\ client.instance <= 1
  /\ \A k \in Initializers :
       initializing[k].pc = "returned"
         => initializing[k].returned = 1 /\ client = PayloadClient(1)
  /\ [][client # NoClient => client' = client]_vars
  /\ [][ \A k \in Initializers :
            (initializing[k].pc = "test" /\ initializing'[k] # initializing[k])
              => /\ initializing'[k].pc = "returned"
                 /\ initializing'[k].returned = client.instance ]_vars

\* The task that constructed the client returned it after a failed connection
\* test, and another task was handed the same client while that test was
\* still awaited.
C37_Witness ==
  \E k1, k2 \in Initializers :
    /\ k1 # k2
    /\ initializing[k1].pc = "returned"
    /\ initializing[k1].test.kind \in {"error", "raised"}
    /\ initializing[k2].pc = "returned"
    /\ initializing[k2].concurrent
    /\ initializing[k1].returned = initializing[k2].returned

====
